---- MODULE Spec2Model ----
(***************************************************************************)
(* Global Outreach CMS backend: the users table, the JWT bearer tokens,    *)
(* the authenticate / authorize middleware, the auth controller over the   *)
(* User model, the user-management routes of server.js, the content        *)
(* routes of the two content servers, the Post and Page models, and the    *)
(* media and settings routes.                                              *)
(*                                                                         *)
(* The specifications share the variables below:                           *)
(*   SpecRegister   interleaved POST /api/auth/register requests           *)
(*   Spec           the auth controller behind authenticate / authorize    *)
(*   SpecServer     server.js (authenticateToken and /api/users routes)    *)
(*   SpecAlt        the alternate server entry (its auth routes)           *)
(*   SpecAuthorize  the authorize(roles) middleware on enumerated inputs   *)
(*   SpecGuards     checkContentPermission and isOwnerOrAdmin              *)
(*   SpecContent    the /api/content routes of both content servers        *)
(*   SpecFindAll    Post.findAll and Page.findAll over enumerated tables   *)
(*   SpecPostOne    Post.create / Post.update, one call at a time          *)
(*   SpecPost       interleaved Post.create / Post.update transactions     *)
(*   SpecLogin      the login routes and toggleUserStatus                  *)
(*   SpecErrors     the 500 answers of server.js under NODE_ENV            *)
(*   SpecPublish    published_at across Post.create / Post.update          *)
(*   SpecDefaults   Post.findAll / Page.findAll called without filters     *)
(*   SpecFold       the categories folded into a returned post             *)
(*   SpecListing    Post.findAll's two queries against post writes         *)
(*   SpecRace       Post.update calls racing on one post                   *)
(*   SpecMedia      the media upload and delete routes                     *)
(*   SpecSettings   the settings routes over the connection pool           *)
(***************************************************************************)
EXTENDS Integers, FiniteSets, Sequences, TLC

\* ---------------------------------------------------------------- bounds
MaxId == 3        \* AUTO_INCREMENT ids handed out by the users table
MaxTime == 1      \* clock ticks
MaxReq == 2       \* register requests in flight at once

\* ------------------------------------------------------ program constants
TokenTTL == 1     \* expiresIn ('7d' / '1d'), in clock ticks

Roles == {"admin", "editor", "viewer"}

Unset == "<unset>"                       \* process.env.X is undefined
EnvValues == {Unset, "env-secret"}

ADMIN_EMAIL == "admin@globaloutreach.org"
ADMIN_PASSWORD == "Admin@123"

Usernames == {"admin", "ann"}
Emails == {ADMIN_EMAIL, "ann@go.org", "new@go.org"}
StrongPasswords == {ADMIN_PASSWORD, "Str0ng!Pass"}
Passwords == StrongPasswords \cup {"weak"}

VARIABLES
  users,         \* the users table: a set of rows
  nextId,        \* AUTO_INCREMENT counter of the users table
  held,          \* the token the client has stored (NoToken: none)
  now,           \* the clock
  jwtSecretEnv,  \* process.env.JWT_SECRET
  reg,           \* register requests in flight: position and request body
  resp,          \* the response to the last request
  content,       \* the content table
  posts,         \* the posts table (committed rows)
  pages,         \* the pages table
  post_categories, \* the post_categories table (committed rows)
  autoInc,       \* AUTO_INCREMENT counters of the content and posts tables
  leased,        \* connections of the pool that are leased out: to the Post
                 \* calls below, and to other requests
  call,          \* Post.create / Post.update calls in flight
  nodeEnv,       \* process.env.NODE_ENV
  settings,      \* the settings table (committed rows): key -> value
  conns,         \* the pool's connections: the transaction open on each
  media,         \* the media table: its rows and its AUTO_INCREMENT counter
  files,         \* the files of the upload directory
  categories,    \* the categories table, where its names matter
  listing,       \* the findAll call in flight: its filters and its count
  put            \* the PUT /api/settings request in flight

auxVars == <<nodeEnv, settings, conns, media, files, categories, listing, put>>
cmsVars == <<content, posts, pages, post_categories, autoInc, leased, call, auxVars>>
vars == <<users, nextId, held, now, jwtSecretEnv, reg, resp, content, posts, pages,
          post_categories, autoInc, leased, call, auxVars>>

\* ------------------------------------------------------------- JS values
\* Express path parameters are strings, database ids are numbers.
Num(n) == [t |-> "number", v |-> n]
Str(n) == [t |-> "string", v |-> n]      \* the decimal string of n
StrictEq(a, b) == a.t = b.t /\ a.v = b.v \* JavaScript ===
parseInt(s) == Num(s.v)
SqlIdEq(col, param) == col = param.v     \* MySQL compares an INT column numerically

Undefined == "<undefined>"
Null == <<>>                             \* SQL NULL of a DATETIME column
EnvOr(v, default) == IF v = Unset THEN default ELSE v

NoRow == [none |-> TRUE]
NoToken == [absent |-> TRUE]
Malformed == [malformed |-> TRUE]
NoAuth == [skipped |-> TRUE]

\* ------------------------------------------------------------ bcryptjs
bcrypt_hash(p) == <<"$2a$10$", p>>
bcrypt_compare(p, h) == h = bcrypt_hash(p)

\* ---------------------------------------------------------- jsonwebtoken
jwt_sign(payload, key, t) ==
  [id |-> payload.id, role |-> payload.role, key |-> key, exp |-> t + TokenTTL]

jwt_verify(token, key, t) ==
  IF token = Malformed THEN [err |-> "JsonWebTokenError", payload |-> NoToken]
  ELSE IF token.key # key THEN [err |-> "JsonWebTokenError", payload |-> NoToken]
  ELSE IF t >= token.exp THEN [err |-> "TokenExpiredError", payload |-> NoToken]
  ELSE [err |-> "", payload |-> token]

\* a token that names the seeded admin, signed with a key of the client's own
ForgedTokens ==
  {[id |-> 1, role |-> "admin", key |-> "attacker-key", exp |-> MaxTime + TokenTTL + 1]}

\* What a client can put in the Authorization header.
NoHeader == [absent |-> TRUE]
Headers ==
  {NoHeader}
    \cup {[bearer |-> b, token |-> k] : b \in BOOLEAN, k \in {held} \ {NoToken}}
    \cup {[bearer |-> TRUE, token |-> k] : k \in ForgedTokens \cup {Malformed}}

\* The client stores the token it was issued, or goes on with the one it has.
Keep(token) == held' \in {held, token}

\* ------------------------------------------------ users table (schema)
\* username VARCHAR(50) NOT NULL UNIQUE, email VARCHAR(100) NOT NULL UNIQUE
UniqueViolation_Unchecked(tbl, row) == FALSE

UniqueViolation(tbl, row) ==
  \E r \in tbl : r.id # row.id /\ (r.email = row.email \/ r.username = row.username)

SeedAdmin ==
  [id |-> 1, username |-> "admin", email |-> ADMIN_EMAIL,
   password |-> bcrypt_hash(ADMIN_PASSWORD), role |-> "admin",
   is_active |-> TRUE, last_login |-> Null]

\* ------------------------------------------------------------ User model
JWT_SECRET == EnvOr(jwtSecretEnv, "your_jwt_secret_key")

User_findById(id) ==
  IF \E r \in users : r.id = id THEN CHOOSE r \in users : r.id = id ELSE NoRow

User_findByEmail(email) ==
  IF \E r \in users : r.email = email
  THEN CHOOSE r \in users : r.email = email ELSE NoRow

User_findByUsername(username) ==
  IF \E r \in users : r.username = username
  THEN CHOOSE r \in users : r.username = username ELSE NoRow

User_generateJwt(user) == jwt_sign([id |-> user.id, role |-> user.role], JWT_SECRET, now)

\* const { password, ...userWithoutPassword } = user
WithoutPassword(user) == [f \in DOMAIN user \ {"password"} |-> user[f]]

\* ------------------------------------------------------------ responses
NoReq == [none |-> TRUE]

Response(op, req, status, message, body, token, auth) ==
  [op |-> op, req |-> req, status |-> status, message |-> message,
   users |-> body, token |-> token, auth |-> auth]

NoResp == Response("none", NoReq, 0, "", {}, NoToken, NoAuth)

\* A step that sends no answer.
Pending == resp' = NoResp

\* The content and post tables before any content request.
NoLease == [calls |-> 0, others |-> 0]
\* CREATE TABLE media (part_003:35), empty
NoMedia == [rows |-> {}, autoInc |-> 1]

\* NODE_ENV unset, no setting, no media, no transaction open
AuxEmpty ==
  /\ nodeEnv = Unset
  /\ settings = <<>>
  /\ conns = <<>>
  /\ media = NoMedia
  /\ files = {}
  /\ categories = {}
  /\ listing = NoRow
  /\ put = NoRow

CmsEmpty ==
  /\ content = {}
  /\ posts = {}
  /\ pages = {}
  /\ post_categories = {}
  /\ autoInc = [content |-> 1, posts |-> 1]
  /\ leased = NoLease
  /\ call = <<>>
  /\ AuxEmpty

\* ------------------------------------------- registerValidator (part_001)
registerValidator(body) == body.password \in StrongPasswords

\* --------------------------------------------- POST /api/auth/register
\* The handler awaits three times; each await is a point where another
\* request can run.
Idle == [pc |-> "idle", username |-> "", email |-> "", password |-> ""]

RegReq(body) == [username |-> body.username, email |-> body.email]

\* lines 11-23: validation, then User.findByEmail
register_findByEmail(r, body) ==
  /\ reg[r].pc = "idle"
  /\ UNCHANGED <<users, nextId, held, now, jwtSecretEnv>>
  /\ IF ~registerValidator(body)
     THEN /\ resp' = Response("register", RegReq(body), 400, "errors", {}, NoToken, NoAuth)
          /\ reg' = reg
     ELSE IF User_findByEmail(body.email) # NoRow
     THEN /\ resp' = Response("register", RegReq(body), 400, "User already exists",
                              {}, NoToken, NoAuth)
          /\ reg' = reg
     ELSE /\ reg' = [reg EXCEPT ![r] = [pc |-> "findByUsername", username |-> body.username,
                                        email |-> body.email, password |-> body.password]]
          /\ Pending

\* lines 26-29: User.findByUsername
register_findByUsername(r) ==
  /\ reg[r].pc = "findByUsername"
  /\ UNCHANGED <<users, nextId, held, now, jwtSecretEnv>>
  /\ IF User_findByUsername(reg[r].username) # NoRow
     THEN /\ resp' = Response("register", RegReq(reg[r]), 400, "Username is already taken",
                              {}, NoToken, NoAuth)
          /\ reg' = [reg EXCEPT ![r] = Idle]
     ELSE /\ reg' = [reg EXCEPT ![r].pc = "create"]
          /\ Pending

\* User.create (lines 241-248): the row the INSERT writes
User_create(id, body) ==
  [id |-> id, username |-> body.username, email |-> body.email,
   password |-> bcrypt_hash(body.password), role |-> body.role,
   is_active |-> TRUE, last_login |-> Null]

\* lines 32-54: User.create, User.generateJwt, the 201 answer; a failed
\* INSERT (ER_DUP_ENTRY) lands in the catch block
register_create(r) ==
  /\ reg[r].pc = "create"
  /\ nextId <= MaxId
  /\ UNCHANGED <<held, now, jwtSecretEnv>>
  /\ reg' = [reg EXCEPT ![r] = Idle]
  /\ LET user == User_create(nextId, [username |-> reg[r].username, email |-> reg[r].email,
                                      password |-> reg[r].password, role |-> "viewer"])
     IN IF UniqueViolation(users, user)
        THEN /\ resp' = Response("register", RegReq(reg[r]), 500, "Server error",
                                 {}, NoToken, NoAuth)
             /\ UNCHANGED <<users, nextId>>
        ELSE /\ users' = users \cup {user}
             /\ nextId' = nextId + 1
             /\ resp' = Response("register", RegReq(reg[r]), 201, "",
                                 {WithoutPassword(user)}, User_generateJwt(user), NoAuth)

InitRegister ==
  /\ users = {SeedAdmin}
  /\ nextId = 2
  /\ held = NoToken
  /\ now = 0
  /\ jwtSecretEnv \in EnvValues
  /\ reg = [r \in 1..MaxReq |-> Idle]
  /\ resp = NoResp
  /\ CmsEmpty

NextRegister ==
  \/ \E r \in 1..MaxReq, u \in Usernames, e \in Emails, p \in {"Str0ng!Pass", "weak"} :
       register_findByEmail(r, [username |-> u, email |-> e, password |-> p]) /\ UNCHANGED cmsVars
  \/ \E r \in 1..MaxReq : register_findByUsername(r) /\ UNCHANGED cmsVars
  \/ \E r \in 1..MaxReq : register_create(r) /\ UNCHANGED cmsVars

SpecRegister == InitRegister /\ [][NextRegister]_vars

\* C1: the users table never holds two rows with the same email or the same
\* username, and a register request whose email or username is that of a
\* stored user is answered with a status other than 201, inserts no row and
\* issues no token.
UsersUnique ==
  \A r1 \in users : \A r2 \in users :
    r1 # r2 => (r1.id # r2.id /\ r1.email # r2.email /\ r1.username # r2.username)

RegisterTaken ==
  /\ resp'.op = "register"
  /\ \E r \in users : r.email = resp'.req.email \/ r.username = resp'.req.username

C1_RegisterRejectsDuplicates ==
  /\ []UsersUnique
  /\ [][RegisterTaken => (resp'.status # 201 /\ users' = users /\ resp'.token = NoToken)]_vars

\* a request that passed both look-ups lost the race and was refused by the INSERT
C1_Witness ==
  /\ resp.op = "register" /\ resp.status = 500
  /\ \E r \in users : r.id > 1 /\ (r.email = resp.req.email \/ r.username = resp.req.username)

\* ------------------------------------------ authenticate (part_001:159)
\* req.header('Authorization')?.replace('Bearer ', '')
HeaderToken(h) == IF h = NoHeader THEN NoToken ELSE h.token

Deny(h, status, message) ==
  [next |-> FALSE, status |-> status, message |-> message,
   user |-> NoRow, token |-> NoToken, header |-> h]

authenticate_NoActiveCheck(h) ==
  LET token == HeaderToken(h) IN
  IF token = NoToken THEN Deny(h, 401, "No token, authorization denied")
  ELSE LET decoded == jwt_verify(token, JWT_SECRET, now) IN
    IF decoded.err = "JsonWebTokenError" THEN Deny(h, 401, "Token is not valid")
    ELSE IF decoded.err = "TokenExpiredError" THEN Deny(h, 401, "Token has expired")
    ELSE LET user == User_findById(decoded.payload.id) IN
      IF user = NoRow THEN Deny(h, 401, "Token is not valid")
      ELSE [next |-> TRUE, status |-> 0, message |-> "",
            user |-> user, token |-> token, header |-> h]

authenticate(h) ==
  LET token == HeaderToken(h) IN
  IF token = NoToken THEN Deny(h, 401, "No token, authorization denied")
  ELSE LET decoded == jwt_verify(token, JWT_SECRET, now) IN
    IF decoded.err = "JsonWebTokenError" THEN Deny(h, 401, "Token is not valid")
    ELSE IF decoded.err = "TokenExpiredError" THEN Deny(h, 401, "Token has expired")
    ELSE LET user == User_findById(decoded.payload.id) IN
      IF user = NoRow THEN Deny(h, 401, "Token is not valid")
      ELSE IF ~user.is_active THEN Deny(h, 401, "User account is deactivated")
      ELSE [next |-> TRUE, status |-> 0, message |-> "",
            user |-> user, token |-> token, header |-> h]

\* --------------------------------------------- authorize (part_001:206)
\* roles is a string or an array; an array is modelled by the set of its
\* elements (the code only asks roles.length and roles.includes).
RoleString(r) == [t |-> "string", v |-> r]
RoleArray(rs) == [t |-> "array", v |-> rs]

authorize_Inverted(roles, reqUser) ==
  LET list == IF roles.t = "string" THEN {roles.v} ELSE roles.v IN
  IF reqUser = NoRow
  THEN [next |-> FALSE, status |-> 401, message |-> "Not authorized", by |-> "authorize"]
  ELSE IF list # {} /\ reqUser.role \in list
  THEN [next |-> FALSE, status |-> 403, message |-> "User role is not authorized",
        by |-> "authorize"]
  ELSE [next |-> TRUE, status |-> 0, message |-> "", by |-> "authorize"]

authorize(roles, reqUser) ==
  LET list == IF roles.t = "string" THEN {roles.v} ELSE roles.v IN
  IF reqUser = NoRow
  THEN [next |-> FALSE, status |-> 401, message |-> "Not authorized", by |-> "authorize"]
  ELSE IF list # {} /\ reqUser.role \notin list
  THEN [next |-> FALSE, status |-> 403, message |-> "User role is not authorized",
        by |-> "authorize"]
  ELSE [next |-> TRUE, status |-> 0, message |-> "", by |-> "authorize"]

\* The router: every /auth/users route is "@access Private/Admin".
AdminOnly(a) ==
  IF ~a.next
  THEN [next |-> FALSE, status |-> a.status, message |-> a.message, by |-> "authenticate"]
  ELSE authorize(RoleString("admin"), a.user)

Refused(op, req, gate, a) ==
  /\ resp' = Response(op, req, gate.status, gate.message, {}, NoToken, a)
  /\ UNCHANGED <<users, nextId, held, now, jwtSecretEnv, reg>>

\* UPDATE users SET ... WHERE id = ?
\* changes: the assigned columns and their new values
UpdateWhereId(param, changes) ==
  {IF SqlIdEq(r.id, param)
   THEN [f \in DOMAIN r |-> IF f \in DOMAIN changes THEN changes[f] ELSE r[f]]
   ELSE r : r \in users}

\* ------------------------------------------------ auth controller + User
\* User.login (part_000:313) behind login (part_000:62)
User_login(email, password) ==
  LET user == User_findByEmail(email) IN
  IF user = NoRow THEN [error |-> "Invalid credentials"]
  ELSE IF ~bcrypt_compare(password, user.password) THEN [error |-> "Invalid credentials"]
  ELSE IF ~user.is_active THEN [error |-> "Account is deactivated"]
  ELSE [error |-> "", user |-> WithoutPassword(user), token |-> User_generateJwt(user),
        id |-> user.id]

\* what login sends for the outcome of User.login
loginReply(email, password) ==
  LET r == User_login(email, password) IN
  IF r.error # "" THEN [status |-> 401, body |-> [message |-> r.error]]
  ELSE [status |-> 200, body |-> [user |-> r.user, token |-> r.token]]

login(email, password) ==
  LET r == User_login(email, password)
      reply == loginReply(email, password)
  IN
  /\ UNCHANGED <<nextId, now, jwtSecretEnv, reg>>
  /\ IF r.error # ""
     THEN /\ resp' = Response("login", NoReq, reply.status, reply.body.message,
                              {}, NoToken, NoAuth)
          /\ UNCHANGED <<users, held>>
     ELSE /\ users' = UpdateWhereId(Num(r.id), [last_login |-> <<now>>])
          /\ resp' = Response("login", NoReq, reply.status, "", {reply.body.user},
                              reply.body.token, NoAuth)
          /\ Keep(reply.body.token)

\* getCurrentUser (part_000:90)
getCurrentUser(h) ==
  LET a == authenticate(h) IN
  IF ~a.next THEN Refused("authenticate", NoReq, a, a)
  ELSE LET user == User_findById(a.user.id) IN
    /\ resp' = IF user = NoRow
               THEN Response("getCurrentUser", NoReq, 404, "User not found", {}, NoToken, a)
               ELSE Response("getCurrentUser", NoReq, 200, "", {WithoutPassword(user)},
                             NoToken, a)
    /\ UNCHANGED <<users, nextId, held, now, jwtSecretEnv, reg>>

\* updateProfile (part_000:113) and User.updateProfile (part_000:269).
\* body.profile stands for firstName, lastName and avatar; pool.execute
\* throws on an undefined bind parameter.
updateProfile(h, body) ==
  LET a == authenticate(h) IN
  IF ~a.next THEN Refused("authenticate", NoReq, a, a)
  ELSE LET existingUser == IF body.email # Undefined THEN User_findByEmail(body.email)
                           ELSE NoRow
           changed == UpdateWhereId(Num(a.user.id), [email |-> body.email])
       IN
    /\ UNCHANGED <<nextId, held, now, jwtSecretEnv, reg>>
    /\ IF existingUser # NoRow /\ existingUser.id # a.user.id
       THEN /\ resp' = Response("updateProfile", NoReq, 400, "Email is already in use",
                                {}, NoToken, a)
            /\ users' = users
       ELSE IF body.email = Undefined \/ body.profile = Undefined
       THEN /\ resp' = Response("updateProfile", NoReq, 500, "Server error", {}, NoToken, a)
            /\ users' = users
       ELSE /\ users' = changed
            /\ resp' = Response("updateProfile", NoReq, 200, "",
                                {r \in changed : r.id = a.user.id}, NoToken, a)

\* changePasswordValidator (part_001:334)
changePasswordValidator(body) ==
  /\ body.newPassword \in StrongPasswords
  /\ body.newPassword # body.currentPassword

\* changePassword (part_000:151) and User.changePassword (part_000:278)
User_changePassword_NoCompare(id, currentPassword, newPassword) ==
  LET user == User_findById(id) IN
  IF user = NoRow THEN [error |-> "User not found", table |-> users]
  ELSE [error |-> "",
        table |-> UpdateWhereId(Num(id), [password |-> bcrypt_hash(newPassword)])]

User_changePassword(id, currentPassword, newPassword) ==
  LET user == User_findById(id) IN
  IF user = NoRow THEN [error |-> "User not found", table |-> users]
  ELSE IF ~bcrypt_compare(currentPassword, user.password)
  THEN [error |-> "Current password is incorrect", table |-> users]
  ELSE [error |-> "",
        table |-> UpdateWhereId(Num(id), [password |-> bcrypt_hash(newPassword)])]

changePassword(h, body) ==
  LET a == authenticate(h)
      req == [currentPassword |-> body.currentPassword]
  IN
  IF ~a.next THEN Refused("authenticate", NoReq, a, a)
  ELSE
    /\ UNCHANGED <<nextId, held, now, jwtSecretEnv, reg>>
    /\ IF ~changePasswordValidator(body)
       THEN /\ resp' = Response("changePassword", req, 400, "errors", {}, NoToken, a)
            /\ users' = users
       ELSE LET r == User_changePassword(a.user.id, body.currentPassword, body.newPassword) IN
            /\ users' = r.table
            /\ resp' = IF r.error # ""
                       THEN Response("changePassword", req, 400, r.error, {}, NoToken, a)
                       ELSE Response("changePassword", req, 200,
                                     "Password updated successfully", {}, NoToken, a)

\* getUsers (part_000:174) and User.getAllUsers (part_000:341)
User_getAllUsers ==
  {[f \in {"id", "username", "email", "role", "is_active", "last_login"} |-> r[f]] :
     r \in users}

getUsers(h) ==
  LET a == authenticate(h)
      g == AdminOnly(a)
  IN
  IF ~g.next THEN Refused(g.by, NoReq, g, a)
  ELSE /\ resp' = Response("getUsers", NoReq, 200, "", User_getAllUsers, NoToken, a)
       /\ UNCHANGED <<users, nextId, held, now, jwtSecretEnv, reg>>

\* updateUserRole (part_000:189) and User.updateUserRole (part_000:349)
updateUserRole(h, id, role) ==
  LET a == authenticate(h)
      g == AdminOnly(a)
      req == [id |-> id]
  IN
  IF ~g.next THEN Refused(g.by, NoReq, g, a)
  ELSE
    /\ UNCHANGED <<nextId, held, now, jwtSecretEnv, reg>>
    /\ IF StrictEq(id, Num(a.user.id))
       THEN /\ resp' = Response("updateUserRole", req, 400, "Cannot change your own role",
                                {}, NoToken, a)
            /\ users' = users
       ELSE LET changed == UpdateWhereId(id, [role |-> role]) IN
            /\ users' = changed
            /\ resp' = Response("updateUserRole", req, 200, "",
                                {r \in changed : SqlIdEq(r.id, id)}, NoToken, a)

\* toggleUserStatus (part_000:212) and User.toggleUserStatus (part_000:355)
toggleUserStatus(h, id) ==
  LET a == authenticate(h)
      g == AdminOnly(a)
      req == [id |-> id]
  IN
  IF ~g.next THEN Refused(g.by, NoReq, g, a)
  ELSE
    /\ UNCHANGED <<nextId, held, now, jwtSecretEnv, reg>>
    /\ IF StrictEq(id, Num(a.user.id))
       THEN /\ resp' = Response("toggleUserStatus", req, 400,
                                "Cannot deactivate your own account", {}, NoToken, a)
            /\ users' = users
       ELSE IF ~\E r \in users : SqlIdEq(r.id, id)
       THEN /\ resp' = Response("toggleUserStatus", req, 500, "Server error", {}, NoToken, a)
            /\ users' = users
       ELSE LET user == CHOOSE r \in users : SqlIdEq(r.id, id)
                newStatus == ~user.is_active
                changed == UpdateWhereId(id, [is_active |-> newStatus])
            IN
            /\ users' = changed
            /\ resp' = Response("toggleUserStatus", req, 200, "",
                                {r \in changed : SqlIdEq(r.id, id)}, NoToken, a)

Tick ==
  /\ now < MaxTime
  /\ now' = now + 1
  /\ Pending
  /\ UNCHANGED <<users, nextId, held, jwtSecretEnv, reg>>

\* The table after a viewer has registered.
Init ==
  /\ users = {SeedAdmin,
              User_create(2, [username |-> "ann", email |-> "ann@go.org",
                              password |-> "Str0ng!Pass", role |-> "viewer"])}
  /\ nextId = 3
  /\ held = NoToken
  /\ now = 0
  /\ jwtSecretEnv \in EnvValues
  /\ reg = [r \in 1..MaxReq |-> Idle]
  /\ resp = NoResp
  /\ CmsEmpty

PathIds == {Str(i) : i \in 1..MaxId}
\* :id of the admin routes: every row of the table, and an id that names none
TargetIds == {Str(r.id) : r \in users} \cup {Str(nextId)}
ProfileEmails == {ADMIN_EMAIL}
NewPasswords == {"Str0ng!Pass", "weak"}

Next ==
  \/ \E e \in Emails, p \in Passwords : login(e, p) /\ UNCHANGED cmsVars
  \/ \E h \in Headers : getCurrentUser(h) /\ UNCHANGED cmsVars
  \/ \E h \in Headers, e \in ProfileEmails \cup {Undefined}, f \in {"given", Undefined} :
       updateProfile(h, [email |-> e, profile |-> f]) /\ UNCHANGED cmsVars
  \/ \E h \in Headers, c \in Passwords, n \in NewPasswords :
       changePassword(h, [currentPassword |-> c, newPassword |-> n]) /\ UNCHANGED cmsVars
  \/ \E h \in Headers : getUsers(h) /\ UNCHANGED cmsVars
  \/ \E h \in Headers, id \in TargetIds, role \in Roles : updateUserRole(h, id, role) /\ UNCHANGED cmsVars
  \/ \E h \in Headers, id \in TargetIds : toggleUserStatus(h, id) /\ UNCHANGED cmsVars
  \/ Tick /\ UNCHANGED cmsVars

Spec == Init /\ [][Next]_vars

TypeOK ==
  /\ \A r \in users : r.role \in Roles /\ r.id \in 1..MaxId
  /\ now \in 0..MaxTime

\* C3: a change-password request whose currentPassword does not match the
\* stored hash of the caller is answered 400 and leaves every users row,
\* the caller's password hash included, as it was.
WrongCurrentPassword ==
  /\ resp'.op = "changePassword"
  /\ \E r \in users : /\ r.id = resp'.auth.user.id
                      /\ ~bcrypt_compare(resp'.req.currentPassword, r.password)

C3_WrongCurrentPasswordKeepsHash ==
  [][WrongCurrentPassword => (resp'.status = 400 /\ users' = users)]_vars

C3_Witness ==
  /\ resp.op = "changePassword"
  /\ resp.status = 400
  /\ resp.message = "Current password is incorrect"

\* C4: no response body of register, login, getCurrentUser, updateProfile,
\* getUsers, updateUserRole or toggleUserStatus holds a user's password field.
C4_NoPasswordInResponse == \A u \in resp.users : "password" \notin DOMAIN u

\* C5: when the id path parameter of PUT /auth/users/:id/role or
\* /auth/users/:id/toggle-active designates the caller's own account, the
\* handler answers 400 and the caller's row (role, is_active) is unchanged.
C5_SelfTargetRejected ==
  (/\ resp.op \in {"updateUserRole", "toggleUserStatus"}
   /\ resp.req.id.v = resp.auth.user.id)
    => (resp.status = 400 /\ resp.auth.user \in users)

\* C8: authenticate calls next() exactly when the request carries a token
\* with a valid signature, unexpired, naming a stored user who is active;
\* otherwise it answers 401 and the handler does not run; on success
\* req.user is the stored row and req.token the presented token.
Carries(h) == IF h = NoHeader THEN NoToken ELSE h.token

ValidFor(token) ==
  /\ token \notin {NoToken, Malformed}
  /\ token.key = JWT_SECRET
  /\ now < token.exp
  /\ \E r \in users : r.id = token.id /\ r.is_active

C8_AuthenticateGate ==
  [][resp'.auth # NoAuth =>
       LET a == resp'.auth IN
       /\ a.next <=> ValidFor(Carries(a.header))
       /\ ~a.next => (resp'.op = "authenticate" /\ resp'.status = 401 /\ users' = users)
       /\ a.next => (/\ a.user \in users
                     /\ a.user.id = Carries(a.header).id
                     /\ a.token = Carries(a.header))]_vars

\* a stored token is refused once its account has been deactivated
C8_Witness ==
  /\ resp.auth # NoAuth
  /\ resp.auth.message = "User account is deactivated"
  /\ Carries(resp.auth.header) = held

\* ====================================================== server.js
\* Its users table has a name column in place of username; email is the
\* unique key its handlers look rows up by.
SrvUniqueViolation(tbl, row) == \E r \in tbl : r.id # row.id /\ r.email = row.email

SrvRow(id, name, email, password, role) ==
  [id |-> id, name |-> name, email |-> email, password |-> bcrypt_hash(password),
   role |-> role, is_active |-> TRUE]

SrvSeedAdmin == SrvRow(1, "Admin User", ADMIN_EMAIL, ADMIN_PASSWORD, "admin")

SrvSignKey == EnvOr(jwtSecretEnv, "your_jwt_secret")
SrvVerifyKey == EnvOr(jwtSecretEnv, "your-secret-key")

\* authenticateToken (server.js:90): req.user is the decoded payload
authenticateToken(h) ==
  LET token == IF h = NoHeader \/ ~h.bearer THEN NoToken ELSE h.token IN
  IF token = NoToken
  THEN [next |-> FALSE, status |-> 401, message |-> "", user |-> NoRow, header |-> h]
  ELSE LET v == jwt_verify(token, SrvVerifyKey, now) IN
    IF v.err # ""
    THEN [next |-> FALSE, status |-> 403, message |-> "", user |-> NoRow, header |-> h]
    ELSE [next |-> TRUE, status |-> 0, message |-> "",
          user |-> [id |-> v.payload.id, role |-> v.payload.role], header |-> h]

\* SELECT id, name, email, role, is_active as status ... FROM users
SrvPublic(r) ==
  [id |-> r.id, name |-> r.name, email |-> r.email, role |-> r.role, status |-> r.is_active]

\* the error text of the driver, as sent in the error field of a body
WithError(r, text) == r @@ ("error" :> text)

\* error: process.env.NODE_ENV === 'development' ? error.message : undefined
\* (JSON.stringify leaves an undefined field out)
DevError(r, text) == IF nodeEnv = "development" THEN WithError(r, text) ELSE r

\* handleDbError (server.js:104)
handleDbError(op, a, text) ==
  DevError(Response(op, NoReq, 500, "A database error occurred", {}, NoToken, a), text)

\* GET /api/users (server.js:125, the handler registered first)
GET_api_users(h) ==
  LET a == authenticateToken(h) IN
  IF ~a.next THEN Refused("authenticateToken", NoReq, a, a)
  ELSE
    /\ resp' = IF a.user.role # "admin"
               THEN Response("GET /api/users", NoReq, 403,
                             "Access denied. Admin privileges required.", {}, NoToken, a)
               ELSE Response("GET /api/users", NoReq, 200, "",
                             {SrvPublic(r) : r \in users}, NoToken, a)
    /\ UNCHANGED <<users, nextId, held, now, jwtSecretEnv, reg>>

\* POST /api/users (server.js:175)
POST_api_users(h, body) ==
  LET a == authenticateToken(h)
      op == "POST /api/users"
      row == SrvRow(nextId, body.name, body.email, body.password, body.role)
  IN
  IF ~a.next THEN Refused("authenticateToken", NoReq, a, a)
  ELSE
    /\ UNCHANGED <<held, now, jwtSecretEnv, reg>>
    /\ IF Undefined \in {body.name, body.email, body.password, body.role}
       THEN /\ resp' = Response(op, NoReq, 400, "All fields are required", {}, NoToken, a)
            /\ UNCHANGED <<users, nextId>>
       ELSE IF \E r \in users : r.email = body.email
       THEN /\ resp' = Response(op, NoReq, 400, "User with this email already exists",
                                {}, NoToken, a)
            /\ UNCHANGED <<users, nextId>>
       ELSE /\ nextId <= MaxId
            /\ users' = users \cup {row}
            /\ nextId' = nextId + 1
            /\ resp' = Response(op, NoReq, 201, "", {SrvPublic(row)}, NoToken, a)

\* PUT /api/users/:id (server.js:216): only the supplied fields are rewritten
SrvUpdate(body) ==
  [f \in {g \in {"name", "email", "role", "password"} : body[g] # Undefined} |->
     IF f = "password" THEN bcrypt_hash(body[f]) ELSE body[f]]

PUT_api_users(h, id, body) ==
  LET a == authenticateToken(h)
      op == "PUT /api/users/:id"
      req == [id |-> id]
      changed == UpdateWhereId(id, SrvUpdate(body))
  IN
  IF ~a.next THEN Refused("authenticateToken", NoReq, a, a)
  ELSE
    /\ UNCHANGED <<nextId, held, now, jwtSecretEnv, reg>>
    /\ IF ~\E r \in users : SqlIdEq(r.id, id)
       THEN /\ resp' = Response(op, req, 404, "User not found", {}, NoToken, a)
            /\ users' = users
       ELSE IF {body.name, body.email, body.role, body.password} = {Undefined}
       THEN /\ resp' = Response(op, req, 400, "No fields to update", {}, NoToken, a)
            /\ users' = users
       ELSE IF \E r \in changed : SrvUniqueViolation(changed, r)
       THEN /\ resp' = DevError(Response(op, req, 500, "Error updating user", {}, NoToken, a),
                                 "ER_DUP_ENTRY")
            /\ users' = users
       ELSE /\ users' = changed
            /\ resp' = Response(op, req, 200, "",
                                {SrvPublic(r) : r \in {u \in changed : SqlIdEq(u.id, id)}},
                                NoToken, a)

\* DELETE /api/users/:id (server.js:281)
DELETE_api_users(h, id) ==
  LET a == authenticateToken(h)
      op == "DELETE /api/users/:id"
      req == [id |-> id]
  IN
  IF ~a.next THEN Refused("authenticateToken", NoReq, a, a)
  ELSE
    /\ UNCHANGED <<nextId, held, now, jwtSecretEnv, reg>>
    /\ IF StrictEq(Num(a.user.id), parseInt(id))
       THEN /\ resp' = Response(op, req, 400, "Cannot delete your own account",
                                {}, NoToken, a)
            /\ users' = users
       ELSE IF ~\E r \in users : SqlIdEq(r.id, id)
       THEN /\ resp' = Response(op, req, 404, "User not found", {}, NoToken, a)
            /\ users' = users
       ELSE /\ users' = {r \in users : ~SqlIdEq(r.id, id)}
            /\ resp' = Response(op, req, 204, "", {}, NoToken, a)

\* POST /api/auth/register-admin (server.js:331)
POST_api_auth_register_admin(body) ==
  LET op == "POST /api/auth/register-admin"
      row == SrvRow(nextId, body.name, body.email, body.password, "admin")
      token == jwt_sign([id |-> nextId, role |-> "admin"], SrvSignKey, now)
  IN
  /\ UNCHANGED <<now, jwtSecretEnv, reg>>
  /\ IF SrvUniqueViolation(users, row)
     THEN /\ resp' = WithError(Response(op, NoReq, 500, "Error registering admin",
                                        {}, NoToken, NoAuth), "ER_DUP_ENTRY")
          /\ UNCHANGED <<users, nextId, held>>
     ELSE /\ nextId <= MaxId
          /\ users' = users \cup {row}
          /\ nextId' = nextId + 1
          /\ resp' = Response(op, NoReq, 201, "Admin registered successfully",
                              {[id |-> row.id, name |-> row.name, email |-> row.email,
                                role |-> row.role]}, token, NoAuth)
          /\ Keep(token)

\* POST /api/auth/login (server.js:446): what the handler sends
SrvLoginReply(email, password) ==
  LET found == {r \in users : r.email = email} IN
  IF found = {}
  THEN [status |-> 400, body |-> [success |-> FALSE, message |-> "Invalid credentials"]]
  ELSE LET user == CHOOSE r \in found : TRUE IN
    IF ~bcrypt_compare(password, user.password)
    THEN [status |-> 400, body |-> [success |-> FALSE, message |-> "Invalid credentials"]]
    ELSE [status |-> 200,
          body |-> [success |-> TRUE,
                    token |-> jwt_sign([id |-> user.id, role |-> user.role], SrvSignKey, now),
                    user |-> WithoutPassword(user)]]

POST_api_auth_login(email, password) ==
  LET reply == SrvLoginReply(email, password)
      op == "POST /api/auth/login"
  IN
  /\ UNCHANGED <<users, nextId, now, jwtSecretEnv, reg>>
  /\ IF reply.status # 200
     THEN /\ resp' = Response(op, NoReq, reply.status, reply.body.message, {}, NoToken, NoAuth)
          /\ held' = held
     ELSE /\ resp' = Response(op, NoReq, 200, "", {reply.body.user}, reply.body.token, NoAuth)
          /\ Keep(reply.body.token)

\* GET /api/auth/me (server.js:377)
GET_api_auth_me(h) ==
  LET a == authenticateToken(h)
      found == {r \in users : r.id = a.user.id}
  IN
  IF ~a.next THEN Refused("authenticateToken", NoReq, a, a)
  ELSE
    /\ resp' = IF found = {}
               THEN Response("GET /api/auth/me", NoReq, 404, "User not found", {}, NoToken, a)
               ELSE Response("GET /api/auth/me", NoReq, 200, "",
                             {[id |-> r.id, name |-> r.name, email |-> r.email,
                               role |-> r.role] : r \in found}, NoToken, a)
    /\ UNCHANGED <<users, nextId, held, now, jwtSecretEnv, reg>>

SrvEmails == {ADMIN_EMAIL, "ann@go.org"}
SrvName == "Admin User"

\* request bodies of POST /api/users
PostBodies ==
  {[name |-> SrvName, email |-> e, password |-> "Str0ng!Pass", role |-> r] :
     e \in SrvEmails, r \in Roles \cup {Undefined}}

\* request bodies of PUT /api/users/:id: no field, or one field, supplied
NoFields == [name |-> Undefined, email |-> Undefined, role |-> Undefined, password |-> Undefined]
PutBodies ==
  {NoFields, [NoFields EXCEPT !.name = SrvName]}
    \cup {[NoFields EXCEPT !.email = e] : e \in SrvEmails}
    \cup {[NoFields EXCEPT !.role = r] : r \in Roles}
    \cup {[NoFields EXCEPT !.password = "Str0ng!Pass"]}

InitServer ==
  /\ users = {SrvSeedAdmin}
  /\ nextId = 2
  /\ held = NoToken
  /\ now = 0
  /\ jwtSecretEnv \in EnvValues
  /\ reg = [r \in 1..MaxReq |-> Idle]
  /\ resp = NoResp
  /\ CmsEmpty

NextServer ==
  \/ \E h \in Headers : GET_api_users(h) /\ UNCHANGED cmsVars
  \/ \E h \in Headers, body \in PostBodies : POST_api_users(h, body) /\ UNCHANGED cmsVars
  \/ \E h \in Headers, id \in PathIds, body \in PutBodies : PUT_api_users(h, id, body) /\ UNCHANGED cmsVars
  \/ \E h \in Headers, id \in PathIds : DELETE_api_users(h, id) /\ UNCHANGED cmsVars
  \/ \E e \in SrvEmails :
       POST_api_auth_register_admin([name |-> SrvName, email |-> e, password |-> "Str0ng!Pass"]) /\ UNCHANGED cmsVars
  \/ \E e \in Emails, p \in StrongPasswords : POST_api_auth_login(e, p) /\ UNCHANGED cmsVars
  \/ \E h \in Headers : GET_api_auth_me(h) /\ UNCHANGED cmsVars
  \/ Tick /\ UNCHANGED cmsVars

SpecServer == InitServer /\ [][NextServer]_vars

\* the request passed authenticateToken and reached its handler
SrvAuthenticated == resp'.auth # NoAuth /\ resp'.auth.next

\* C6: through the /api/users endpoints of server.js no request of a
\* principal deletes that principal's own users row or changes its own role:
\* DELETE and PUT /api/users/:id with the caller's own id are rejected
\* before any mutation.
C6_NoSelfDeleteOrRoleChange ==
  [][SrvAuthenticated =>
       \A r \in users : r.id = resp'.auth.user.id =>
         /\ \E r2 \in users' : r2.id = r.id /\ r2.role = r.role
         /\ (resp'.req # NoReq /\ resp'.req.id.v = r.id) => resp'.status = 400]_vars

\* C7: an authenticated caller whose role is not admin never creates,
\* updates or deletes a users row through POST /api/users, PUT /api/users/:id
\* or DELETE /api/users/:id, and so never gives an account the role admin.
C7_NonAdminCannotWriteUsers ==
  [][(/\ SrvAuthenticated
      /\ resp'.auth.user.role # "admin"
      /\ \A r \in users : r.id = resp'.auth.user.id => r.role # "admin")
       => users' = users]_vars

\* C9: once a user has been deleted or had their role changed, a token
\* issued to that user earlier no longer passes authenticateToken with the old
\* identity and role: a request that passes carries the role now stored.
C9_StaleTokenRejected ==
  [][SrvAuthenticated =>
       \E r \in users : r.id = resp'.auth.user.id /\ r.role = resp'.auth.user.role]_vars

\* ============================== the alternate server entry (part_000:1337)
AltSecret == EnvOr(jwtSecretEnv, "your_jwt_secret")

\* authenticateToken (part_000:1377)
AltAuthenticateToken(h) ==
  LET token == IF h = NoHeader \/ ~h.bearer THEN NoToken ELSE h.token IN
  IF token = NoToken
  THEN [next |-> FALSE, status |-> 401, message |-> "", user |-> NoRow, header |-> h]
  ELSE LET v == jwt_verify(token, AltSecret, now) IN
    IF v.err # ""
    THEN [next |-> FALSE, status |-> 403, message |-> "", user |-> NoRow, header |-> h]
    ELSE [next |-> TRUE, status |-> 0, message |-> "",
          user |-> [id |-> v.payload.id, role |-> v.payload.role], header |-> h]

\* POST /api/auth/login (part_000:1574): what the handler sends
AltLoginReply(email, password) ==
  LET found == {r \in users : r.email = email} IN
  IF email = Undefined \/ password = Undefined
  THEN [status |-> 400,
        body |-> [message |-> "Email and password are required",
                  received |-> [email |-> email # Undefined, password |-> password # Undefined]]]
  ELSE IF found = {}
  THEN [status |-> 400,
        body |-> [message |-> "Invalid credentials",
                  details |-> "No user found with this email"]]
  ELSE LET user == CHOOSE r \in found : TRUE IN
    IF ~bcrypt_compare(password, user.password)
    THEN [status |-> 400,
          body |-> [message |-> "Invalid credentials", details |-> "Incorrect password"]]
    ELSE [status |-> 200,
          body |-> [token |-> jwt_sign([id |-> user.id, role |-> user.role], AltSecret, now),
                    user |-> WithoutPassword(user)]]

AltLogin(email, password) ==
  LET reply == AltLoginReply(email, password)
      op == "POST /api/auth/login"
  IN
  /\ UNCHANGED <<users, nextId, now, jwtSecretEnv, reg>>
  /\ IF reply.status # 200
     THEN /\ resp' = Response(op, NoReq, reply.status, reply.body.message, {}, NoToken, NoAuth)
                       @@ [f \in DOMAIN reply.body \ {"message"} |-> reply.body[f]]
          /\ held' = held
     ELSE /\ resp' = Response(op, NoReq, 200, "", {reply.body.user}, reply.body.token, NoAuth)
          /\ Keep(reply.body.token)

\* POST /api/auth/register-admin (part_000:1666)
AltRegisterAdmin(body) ==
  LET op == "POST /api/auth/register-admin"
      row == SrvRow(nextId, body.name, body.email, body.password, "admin")
      token == jwt_sign([id |-> nextId, role |-> "admin"], AltSecret, now)
  IN
  /\ UNCHANGED <<now, jwtSecretEnv, reg>>
  /\ IF Undefined \in {body.name, body.email, body.password}
     THEN /\ resp' = Response(op, NoReq, 400, "All fields are required", {}, NoToken, NoAuth)
          /\ UNCHANGED <<users, nextId, held>>
     ELSE IF \E r \in users : r.email = body.email
     THEN /\ resp' = Response(op, NoReq, 400, "User with this email already exists",
                              {}, NoToken, NoAuth)
          /\ UNCHANGED <<users, nextId, held>>
     ELSE /\ nextId <= MaxId
          /\ users' = users \cup {row}
          /\ nextId' = nextId + 1
          /\ resp' = Response(op, NoReq, 201, "Admin registered successfully",
                              {[id |-> row.id, name |-> row.name, email |-> row.email,
                                role |-> row.role]}, token, NoAuth)
          /\ Keep(token)

\* GET /api/auth/me (part_000:1637)
AltMe(h) ==
  LET a == AltAuthenticateToken(h)
      found == {r \in users : r.id = a.user.id}
  IN
  IF ~a.next THEN Refused("authenticateToken", NoReq, a, a)
  ELSE
    /\ resp' = IF found = {}
               THEN Response("GET /api/auth/me", NoReq, 404, "User not found", {}, NoToken, a)
               ELSE Response("GET /api/auth/me", NoReq, 200, "",
                             {[id |-> r.id, name |-> r.name, email |-> r.email,
                               role |-> r.role] : r \in found}, NoToken, a)
    /\ UNCHANGED <<users, nextId, held, now, jwtSecretEnv, reg>>

InitAlt == InitServer

NextAlt ==
  \/ \E e \in Emails \cup {Undefined}, p \in StrongPasswords \cup {Undefined} : AltLogin(e, p) /\ UNCHANGED cmsVars
  \/ \E n \in {SrvName, Undefined}, e \in SrvEmails \cup {"new@go.org"} :
       AltRegisterAdmin([name |-> n, email |-> e, password |-> "Str0ng!Pass"]) /\ UNCHANGED cmsVars
  \/ \E h \in Headers : AltMe(h) /\ UNCHANGED cmsVars
  \/ Tick /\ UNCHANGED cmsVars

SpecAlt == InitAlt /\ [][NextAlt]_vars

\* C2: in every login handler, a login with a stored email and a wrong
\* password and a login with an unknown email get the same status code, the
\* same message and no other field that tells the two apart.
WrongPasswordLogin(e, p) == \E r \in users : r.email = e /\ ~bcrypt_compare(p, r.password)
UnknownEmailLogin(e) == \A r \in users : r.email # e

C2_LoginIndistinguishable ==
  \A e1 \in Emails, e2 \in Emails, p1 \in StrongPasswords, p2 \in StrongPasswords :
    (WrongPasswordLogin(e1, p1) /\ UnknownEmailLogin(e2)) =>
      /\ loginReply(e1, p1) = loginReply(e2, p2)
      /\ SrvLoginReply(e1, p1) = SrvLoginReply(e2, p2)
      /\ AltLoginReply(e1, p1) = AltLoginReply(e2, p2)

\* ======================================= authorize on enumerated inputs
RoleArgs == {RoleString(r) : r \in Roles} \cup {RoleArray(rs) : rs \in SUBSET Roles}

ReqUsers ==
  {NoRow} \cup {[SeedAdmin EXCEPT !.id = i, !.role = r] : i \in 1..MaxId, r \in Roles}

authorizeCall(roles, reqUser) ==
  LET g == authorize(roles, reqUser) IN
  /\ resp' = Response("authorize", [roles |-> roles, user |-> reqUser], g.status, g.message,
                      {}, NoToken, g)
  /\ UNCHANGED <<users, nextId, held, now, jwtSecretEnv, reg>>

InitAuthorize == InitRegister

NextAuthorize ==
  \/ \E roles \in RoleArgs, u \in ReqUsers : authorizeCall(roles, u) /\ UNCHANGED cmsVars

SpecAuthorize == InitAuthorize /\ [][NextAuthorize]_vars

\* C10: authorize(roles) with a non-empty role or role list calls next()
\* exactly when req.user is set and req.user.role is in the list; it answers
\* 401 when req.user is absent, 403 when the role is not in the list, and
\* does not call next() in those two cases.
RequiredRoles(roles) == IF roles.t = "string" THEN {roles.v} ELSE roles.v

C10_AuthorizeGate ==
  (resp.op = "authorize" /\ RequiredRoles(resp.req.roles) # {}) =>
    LET u == resp.req.user
        list == RequiredRoles(resp.req.roles)
    IN
    /\ resp.auth.next <=> (u # NoRow /\ u.role \in list)
    /\ u = NoRow => (resp.status = 401 /\ ~resp.auth.next)
    /\ (u # NoRow /\ u.role \notin list) => (resp.status = 403 /\ ~resp.auth.next)

\* an editor is turned away by a gate that lists admin only
C10_Witness ==
  /\ resp.op = "authorize"
  /\ resp.req.roles = RoleArray({"admin"})
  /\ resp.req.user # NoRow
  /\ resp.req.user.role = "editor"
  /\ resp.status = 403

\* =====================================================================
\* Content management: role gates, the content routes, the Post and Page
\* models.
\* =====================================================================

\* ------------------------------------------------- JS / SQL column values
JsNull == [t |-> "null"]                 \* null, and SQL NULL
JsUndefined == [t |-> "undefined"]
Bool(b) == [t |-> "boolean", v |-> b]
Date(t) == [t |-> "date", v |-> t]
Truthy(x) ==
  CASE x.t = "number" -> x.v # 0
    [] x.t = "boolean" -> x.v
    [] x.t = "date" -> TRUE
    [] OTHER -> FALSE
JsOr(a, b) == IF Truthy(a) THEN a ELSE b  \* a || b
Field(row, f) == IF f \in DOMAIN row THEN row[f] ELSE JsUndefined

\* ------------------------------- checkContentPermission (server.js:114)
\* requiredRole = 'editor' when the argument is left out
checkContentPermission(requiredRole, reqUser) ==
  LET required == IF requiredRole = Undefined THEN "editor" ELSE requiredRole IN
  IF reqUser.role = "admin" \/ reqUser.role = required
  THEN [next |-> TRUE, status |-> 0, message |-> "", by |-> "checkContentPermission"]
  ELSE [next |-> FALSE, status |-> 403, message |-> "Insufficient permissions",
        by |-> "checkContentPermission"]

\* the copy in the alternate server (part_000:1401)
AltCheckContentPermission(requiredRole, reqUser) ==
  LET required == IF requiredRole = Undefined THEN "editor" ELSE requiredRole IN
  IF reqUser.role = "admin" \/ reqUser.role = required
  THEN [next |-> TRUE, status |-> 0, message |-> "", by |-> "checkContentPermission"]
  ELSE [next |-> FALSE, status |-> 403, message |-> "Insufficient permissions",
        by |-> "checkContentPermission", success |-> FALSE]

\* ------------------------------------------------ posts table (schema)
\* author_id INT, FOREIGN KEY (author_id) REFERENCES users(id) ON DELETE SET NULL
PostRow(id, authorId, isPublished, publishedAt) ==
  [id |-> id, author_id |-> authorId, is_published |-> isPublished,
   published_at |-> publishedAt]

\* DELETE FROM users WHERE id = ? and what the foreign key of posts does then
DeleteUsersRow(id) ==
  /\ \E r \in users : r.id = id
  /\ users' = {r \in users : r.id # id}
  /\ posts' = {IF r.author_id = Num(id) THEN [r EXCEPT !.author_id = JsNull] ELSE r :
                 r \in posts}
  /\ Pending
  /\ UNCHANGED <<nextId, held, now, jwtSecretEnv, reg, content, pages,
                 post_categories, autoInc, leased, call, auxVars>>

\* SELECT p.*, ..., GROUP_CONCAT(DISTINCT c.id) ... WHERE p.id = ? GROUP BY p.id
Post_findById(tbl, links, param) ==
  IF \E r \in tbl : SqlIdEq(r.id, param)
  THEN LET r == CHOOSE r \in tbl : SqlIdEq(r.id, param) IN
       [id |-> r.id, author_id |-> r.author_id, is_published |-> r.is_published,
        published_at |-> r.published_at,
        categories |-> {l[2] : l \in {k \in links : k[1] = r.id}}]
  ELSE NoRow

\* ------------------------------------------ isOwnerOrAdmin (part_001:232)
\* ownerId.toString() throws a TypeError when ownerId is null or undefined;
\* the catch block answers 500.
isOwnerOrAdmin(reqUser, param) ==
  IF reqUser.role = "admin"
  THEN [next |-> TRUE, status |-> 0, message |-> "", by |-> "isOwnerOrAdmin"]
  ELSE LET resource == Post_findById(posts, post_categories, param) IN
    IF resource = NoRow
    THEN [next |-> FALSE, status |-> 404, message |-> "Resource not found",
          by |-> "isOwnerOrAdmin"]
    ELSE LET ownerId == JsOr(JsOr(Field(resource, "author_id"), Field(resource, "user_id")),
                             Field(resource, "created_by")) IN
      IF ownerId.t \in {"null", "undefined"}
      THEN [next |-> FALSE, status |-> 500, message |-> "Server error",
            by |-> "isOwnerOrAdmin"]
      ELSE IF Str(ownerId.v) # Str(reqUser.id)
      THEN [next |-> FALSE, status |-> 403,
            message |-> "You are not authorized to perform this action",
            by |-> "isOwnerOrAdmin"]
      ELSE [next |-> TRUE, status |-> 0, message |-> "", by |-> "isOwnerOrAdmin"]

\* ------------------------------------------------------ the two gates
GuardsUnchanged ==
  UNCHANGED <<users, nextId, held, now, jwtSecretEnv, reg, content, posts, pages,
              post_categories, autoInc, leased, call, auxVars>>

checkContentPermissionCall(requiredRole, reqUser) ==
  LET g == checkContentPermission(requiredRole, reqUser) IN
  /\ resp' = Response("checkContentPermission",
                      [requiredRole |-> requiredRole, user |-> reqUser],
                      g.status, g.message, {}, NoToken, g)
  /\ GuardsUnchanged

AltCheckContentPermissionCall(requiredRole, reqUser) ==
  LET g == AltCheckContentPermission(requiredRole, reqUser) IN
  /\ resp' = Response("AltCheckContentPermission",
                      [requiredRole |-> requiredRole, user |-> reqUser],
                      g.status, g.message, {}, NoToken, g)
  /\ GuardsUnchanged

isOwnerOrAdminCall(reqUser, param) ==
  LET g == isOwnerOrAdmin(reqUser, param) IN
  /\ resp' = Response("isOwnerOrAdmin",
                      [user |-> reqUser, id |-> param,
                       resource |-> Post_findById(posts, post_categories, param)],
                      g.status, g.message, {}, NoToken, g)
  /\ GuardsUnchanged

\* req.user as authenticate leaves it: a row of the users table
GuardUsers == {[r EXCEPT !.role = role] : r \in users, role \in Roles}

InitGuards ==
  /\ users = {SeedAdmin,
              User_create(2, [username |-> "ann", email |-> "ann@go.org",
                              password |-> "Str0ng!Pass", role |-> "viewer"])}
  /\ nextId = 3
  /\ held = NoToken
  /\ now = 0
  /\ jwtSecretEnv \in EnvValues
  /\ reg = [r \in 1..MaxReq |-> Idle]
  /\ resp = NoResp
  /\ content = {}
  /\ posts = {PostRow(1, Num(1), Bool(TRUE), Date(0)), PostRow(2, Num(2), Bool(FALSE), JsNull)}
  /\ pages = {}
  /\ post_categories = {}
  /\ autoInc = [content |-> 1, posts |-> 3]
  /\ leased = NoLease
  /\ call = <<>>
  /\ AuxEmpty

NextGuards ==
  \/ \E required \in Roles \cup {Undefined}, u \in GuardUsers :
       checkContentPermissionCall(required, u)
  \/ \E required \in Roles \cup {Undefined}, u \in GuardUsers :
       AltCheckContentPermissionCall(required, u)
  \/ \E u \in GuardUsers, id \in PathIds : isOwnerOrAdminCall(u, id)
  \/ \E id \in 1..MaxId : DeleteUsersRow(id)

SpecGuards == InitGuards /\ [][NextGuards]_vars

\* viewer < editor < admin
RoleRank(role) == CASE role = "viewer" -> 1 [] role = "editor" -> 2 [] role = "admin" -> 3

\* C11: checkContentPermission(requiredRole) calls next() exactly when the
\* caller's role is at least requiredRole in the order viewer < editor <
\* admin, for every pair of caller role and required role.
C11_RoleOrderGate ==
  (resp.op \in {"checkContentPermission", "AltCheckContentPermission"}
     /\ resp.req.requiredRole # Undefined) =>
    (resp.auth.next <=> RoleRank(resp.req.user.role) >= RoleRank(resp.req.requiredRole))

\* C12: for a caller who is not an admin, isOwnerOrAdmin calls next()
\* exactly when the resource exists and its owner id is the caller's id; it
\* answers 404 when the resource is absent and 403 for every existing
\* resource whose owner is not the caller, a resource whose owner is NULL
\* included.
C12_OwnerGate ==
  (resp.op = "isOwnerOrAdmin" /\ resp.req.user.role # "admin") =>
    LET resource == resp.req.resource
        owned == resource # NoRow /\ resource.author_id = Num(resp.req.user.id)
    IN
    /\ resp.auth.next <=> owned
    /\ resource = NoRow => resp.status = 404
    /\ (resource # NoRow /\ ~owned) => resp.status = 403

\* =====================================================================
\* The /api/content routes: the content server (part_000:898) and the
\* alternate server (part_000:1337), over one content table.
\* =====================================================================
MaxContent == 2                          \* content rows ever inserted

Slugs == {"about", "news"}
SqlNullText == "<NULL>"                  \* NULL in a text or ENUM column

\* id, slug VARCHAR(255) NOT NULL UNIQUE, status ENUM(...); created_by and
\* updated_by are written from req.user.id and read by no route below
ContentRow(id, slug, status) == [id |-> id, slug |-> slug, status |-> status]

ContentDupEntry(tbl, id, slug) == \E r \in tbl : r.id # id /\ r.slug = slug

\* undefined is sent to MySQL as NULL
ToSql(v) == IF v = Undefined THEN SqlNullText ELSE v
\* status || 'draft'
OrDraft(v) == IF v = Undefined THEN "draft" ELSE v

\* a bearer token that the server's jwt.verify accepts, for a stored user
ContentTokens(key) ==
  {jwt_sign([id |-> r.id, role |-> r.role], key, now) : r \in users}
ContentHeaders(key) ==
  {NoHeader} \cup {[bearer |-> TRUE, token |-> k] : k \in ContentTokens(key) \cup ForgedTokens}

ContentUnchanged ==
  UNCHANGED <<users, nextId, held, now, jwtSecretEnv, reg, posts, pages,
              post_categories, leased, call, auxVars>>

\* a middleware answered; auth.next tells whether the handler was reached
ContentRefused(op, req, gate, a) ==
  /\ resp' = Response(op, req, gate.status, gate.message, {}, NoToken,
                      [a EXCEPT !.next = FALSE])
  /\ UNCHANGED <<content, autoInc>>
  /\ ContentUnchanged

\* authenticateToken of the content server (part_000:977)
CmsVerifyKey == EnvOr(jwtSecretEnv, "your-secret-key")

CmsAuthenticateToken(h) ==
  LET token == IF h = NoHeader \/ ~h.bearer THEN NoToken ELSE h.token IN
  IF token = NoToken
  THEN [next |-> FALSE, status |-> 401, message |-> "", user |-> NoRow, header |-> h]
  ELSE LET v == jwt_verify(token, CmsVerifyKey, now) IN
    IF v.err # ""
    THEN [next |-> FALSE, status |-> 403, message |-> "", user |-> NoRow, header |-> h]
    ELSE [next |-> TRUE, status |-> 0, message |-> "",
          user |-> [id |-> v.payload.id, role |-> v.payload.role], header |-> h]

\* INSERT INTO content (...) VALUES (...): the row stored, or the driver's error
ContentInsert(slug, status) ==
  IF slug = SqlNullText THEN [err |-> "ER_BAD_NULL_ERROR", row |-> NoRow]
  ELSE IF ContentDupEntry(content, 0, slug) THEN [err |-> "ER_DUP_ENTRY", row |-> NoRow]
  ELSE [err |-> "", row |-> ContentRow(autoInc.content, slug, status)]

\* UPDATE content SET slug = ?, status = ?, ... WHERE id = ?
ContentUpdate(param, slug, status) ==
  IF \E r \in content : SqlIdEq(r.id, param) /\ ContentDupEntry(content, r.id, slug)
  THEN [err |-> "ER_DUP_ENTRY", tbl |-> content]
  ELSE [err |-> "",
        tbl |-> {IF SqlIdEq(r.id, param)
                 THEN [r EXCEPT !.slug = slug, !.status = status]
                 ELSE r : r \in content}]

\* POST /api/content (part_000:1100)
POST_api_content(h, body) ==
  LET a == CmsAuthenticateToken(h)
      op == "POST /api/content"
  IN
  IF ~a.next THEN ContentRefused("authenticateToken", NoReq, a, a)
  ELSE
    LET ins == ContentInsert(ToSql(body.slug), OrDraft(body.status)) IN
    /\ autoInc.content <= MaxContent
    /\ ContentUnchanged
    /\ IF ins.err # ""
       THEN /\ resp' = Response(op, body, 500, "Error creating content", {}, NoToken, a)
            /\ UNCHANGED <<content, autoInc>>
       ELSE /\ content' = content \cup {ins.row}
            /\ autoInc' = [autoInc EXCEPT !.content = @ + 1]
            /\ resp' = Response(op, body, 201, "", {ins.row}, NoToken, a)

\* PUT /api/content/:id (part_000:1146)
PUT_api_content(h, id, body) ==
  LET a == CmsAuthenticateToken(h)
      op == "PUT /api/content/:id"
      req == [id |-> id, slug |-> body.slug, status |-> body.status]
  IN
  IF ~a.next THEN ContentRefused("authenticateToken", NoReq, a, a)
  ELSE
    LET upd == ContentUpdate(id, ToSql(body.slug), OrDraft(body.status)) IN
    /\ ContentUnchanged
    /\ autoInc' = autoInc
    /\ IF upd.err # ""
       THEN /\ resp' = Response(op, req, 500, "Error updating content", {}, NoToken, a)
            /\ content' = content
       ELSE /\ content' = upd.tbl
            /\ resp' = Response(op, req, 200, "",
                                {r \in upd.tbl : SqlIdEq(r.id, id)}, NoToken, a)

\* DELETE /api/content/:id (part_000:1201)
DELETE_api_content(h, id) ==
  LET a == CmsAuthenticateToken(h)
      op == "DELETE /api/content/:id"
  IN
  IF ~a.next THEN ContentRefused("authenticateToken", NoReq, a, a)
  ELSE
    /\ ContentUnchanged
    /\ autoInc' = autoInc
    /\ content' = {r \in content : ~SqlIdEq(r.id, id)}
    /\ resp' = Response(op, [id |-> id], 200, "", {}, NoToken, a)

\* ------------------------------------------------ the alternate server
\* POST /api/content (part_000:1444), behind checkContentPermission()
AltPostContent(h, body) ==
  LET a == AltAuthenticateToken(h)
      g == AltCheckContentPermission(Undefined, a.user)
      op == "Alt POST /api/content"
  IN
  IF ~a.next THEN ContentRefused("authenticateToken", NoReq, a, a)
  ELSE IF ~g.next THEN ContentRefused(op, body, g, a)
  ELSE
    LET ins == ContentInsert(ToSql(body.slug), ToSql(body.status)) IN
    /\ autoInc.content <= MaxContent
    /\ ContentUnchanged
    /\ IF ins.err = "ER_DUP_ENTRY"
       THEN /\ resp' = Response(op, body, 400, "Content with this slug already exists",
                                {}, NoToken, a)
            /\ UNCHANGED <<content, autoInc>>
       ELSE IF ins.err # ""
       THEN /\ resp' = Response(op, body, 500, "Database error", {}, NoToken, a)
            /\ UNCHANGED <<content, autoInc>>
       ELSE /\ content' = content \cup {ins.row}
            /\ autoInc' = [autoInc EXCEPT !.content = @ + 1]
            /\ resp' = Response(op, body, 201, "", {ins.row}, NoToken, a)

\* PUT /api/content/:id (part_000:1465), behind checkContentPermission()
AltPutContent(h, id, body) ==
  LET a == AltAuthenticateToken(h)
      g == AltCheckContentPermission(Undefined, a.user)
      op == "Alt PUT /api/content/:id"
      req == [id |-> id, slug |-> body.slug, status |-> body.status]
  IN
  IF ~a.next THEN ContentRefused("authenticateToken", NoReq, a, a)
  ELSE IF ~g.next THEN ContentRefused(op, req, g, a)
  ELSE
    LET upd == ContentUpdate(id, ToSql(body.slug), ToSql(body.status)) IN
    /\ ContentUnchanged
    /\ autoInc' = autoInc
    /\ IF upd.err = "ER_DUP_ENTRY"
       THEN /\ resp' = Response(op, req, 400, "Content with this slug already exists",
                                {}, NoToken, a)
            /\ content' = content
       ELSE /\ content' = upd.tbl
            /\ resp' = Response(op, req, 200, "",
                                {r \in upd.tbl : SqlIdEq(r.id, id)}, NoToken, a)

\* DELETE /api/content/:id (part_000:1488), behind checkContentPermission('admin')
AltDeleteContent(h, id) ==
  LET a == AltAuthenticateToken(h)
      g == AltCheckContentPermission("admin", a.user)
      op == "Alt DELETE /api/content/:id"
  IN
  IF ~a.next THEN ContentRefused("authenticateToken", NoReq, a, a)
  ELSE IF ~g.next THEN ContentRefused(op, [id |-> id], g, a)
  ELSE
    /\ ContentUnchanged
    /\ autoInc' = autoInc
    /\ content' = {r \in content : ~SqlIdEq(r.id, id)}
    /\ resp' = Response(op, [id |-> id], 200, "Content deleted successfully", {},
                        NoToken, a)

\* ... WHERE c.slug = ? AND c.status = 'published'
PublishedBySlug_AnyStatus(slug) == {r \in content : r.slug = slug}

PublishedBySlug(slug) == {r \in content : r.slug = slug /\ r.status = "published"}

\* GET /api/public/content/:slug (part_000:1552): no token is asked for
AltPublicContent(slug) ==
  LET rows == PublishedBySlug(slug)
      op == "GET /api/public/content/:slug"
  IN
  /\ ContentUnchanged
  /\ UNCHANGED <<content, autoInc>>
  /\ IF rows = {}
     THEN resp' = Response(op, [slug |-> slug], 404, "Content not found", {}, NoToken, NoAuth)
     ELSE resp' = Response(op, [slug |-> slug], 200, "", rows, NoToken, NoAuth)

\* a body without status is stored as draft by one server, as NULL by the other
ContentBodies == [slug : Slugs, status : {"published", "archived", Undefined}]
ContentIds == {Str(i) : i \in 1..MaxContent}

InitContent ==
  /\ users = {SeedAdmin,
              User_create(2, [username |-> "ann", email |-> "ann@go.org",
                              password |-> "Str0ng!Pass", role |-> "viewer"]),
              User_create(3, [username |-> "ed", email |-> "ed@go.org",
                              password |-> "Str0ng!Pass", role |-> "editor"])}
  /\ nextId = 4
  /\ held = NoToken
  /\ now = 0
  /\ jwtSecretEnv \in EnvValues
  /\ reg = [r \in 1..MaxReq |-> Idle]
  /\ resp = NoResp
  /\ CmsEmpty

NextContent ==
  \/ \E h \in ContentHeaders(CmsVerifyKey), body \in ContentBodies \cup {[slug |-> Undefined, status |-> "draft"]} :
       POST_api_content(h, body)
  \/ \E h \in ContentHeaders(CmsVerifyKey), id \in ContentIds, body \in ContentBodies :
       PUT_api_content(h, id, body)
  \/ \E h \in ContentHeaders(CmsVerifyKey), id \in ContentIds : DELETE_api_content(h, id)
  \/ \E h \in ContentHeaders(AltSecret), body \in ContentBodies \cup {[slug |-> Undefined, status |-> "draft"]} :
       AltPostContent(h, body)
  \/ \E h \in ContentHeaders(AltSecret), id \in ContentIds, body \in ContentBodies :
       AltPutContent(h, id, body)
  \/ \E h \in ContentHeaders(AltSecret), id \in ContentIds : AltDeleteContent(h, id)
  \/ \E slug \in Slugs \cup {"missing"} : AltPublicContent(slug)

SpecContent == InitContent /\ [][NextContent]_vars

ContentWriteOps ==
  {"POST /api/content", "PUT /api/content/:id", "DELETE /api/content/:id",
   "Alt POST /api/content", "Alt PUT /api/content/:id", "Alt DELETE /api/content/:id"}

\* C13: a caller whose role is viewer never creates, updates or deletes a
\* content row through POST /api/content, PUT /api/content/:id or DELETE
\* /api/content/:id: each such request is answered 403 and leaves the
\* content table unchanged.
C13_ViewerCannotWriteContent ==
  [][(resp'.op \in ContentWriteOps /\ resp'.auth.user.role = "viewer") =>
       (resp'.status = 403 /\ content' = content)]_vars

ContentSlugsUnique ==
  \A r1 \in content : \A r2 \in content : r1 # r2 => (r1.id # r2.id /\ r1.slug # r2.slug)

SlugTaken ==
  /\ resp'.auth # NoAuth
  /\ resp'.auth.next
  /\ \/ /\ resp'.op \in {"POST /api/content", "Alt POST /api/content"}
        /\ \E r \in content : r.slug = resp'.req.slug
     \/ /\ resp'.op \in {"PUT /api/content/:id", "Alt PUT /api/content/:id"}
        /\ \E r \in content : SqlIdEq(r.id, resp'.req.id)
        /\ \E r \in content : ~SqlIdEq(r.id, resp'.req.id) /\ r.slug = resp'.req.slug

C20_DuplicateSlugRejected ==
  /\ []ContentSlugsUnique
  /\ [][SlugTaken => (resp'.status = 400 /\ content' = content)]_vars

\* =====================================================================
\* Post.findAll (part_000:511) and Page.findAll (part_000:808) over
\* enumerated posts, pages and post_categories tables.
\* =====================================================================
MaxRows == 2                             \* rows of the posts and of the pages table

\* text columns and search terms are strings of letters
Titles == {<<"a", "b">>, <<"c">>}
SearchTerms == {<<>>, <<"b">>}
\* text LIKE '%term%'
Like(text, term) ==
  \E i \in 1..(Len(text) - Len(term) + 1) : SubSeq(text, i, i + Len(term) - 1) = term

Categories == {[id |-> 1, slug |-> "news"], [id |-> 2, slug |-> "events"]}

\* the columns of the posts table (part_001:42)
PostColumns ==
  {"id", "title", "slug", "content", "excerpt", "featured_image", "meta_title",
   "meta_description", "meta_keywords", "is_published", "published_at", "author_id",
   "created_at", "updated_at"}

ListedPost(id, title, pub) ==
  [id |-> id, title |-> title, author_id |-> Num(1), is_published |-> Bool(pub),
   published_at |-> IF pub THEN Date(0) ELSE JsNull]

ListedPage(id, title, pub) ==
  [id |-> id, title |-> title, created_by |-> Num(1), is_published |-> Bool(pub),
   updated_at |-> Date(0)]

\* FROM posts p LEFT JOIN post_categories pc ON p.id = pc.post_id
\*              LEFT JOIN categories c ON pc.category_id = c.id
\* (the LEFT JOIN of users adds no row: users.id is a key)
PostJoin ==
  UNION {{[p |-> p, c |-> c] :
            c \in {k \in Categories : <<p.id, k.id>> \in post_categories}} : p \in posts}
    \cup {[p |-> p, c |-> NoRow] : p \in {q \in posts : \A k \in Categories :
                                                         <<q.id, k.id>> \notin post_categories}}

\* the WHERE clause that Post.findAll builds; the title column stands for
\* the three columns that are matched against the search term
PostWhere(j, f) ==
  /\ f.search # <<>> => Like(j.p.title, f.search)
  /\ f.status = "published" => j.p.is_published = Bool(TRUE)
  /\ f.status = "draft" => j.p.is_published = Bool(FALSE)
  /\ f.category # Undefined => (j.c # NoRow /\ j.c.slug = f.category)

Ceil(a, b) == (a + b - 1) \div b

\* the orders ORDER BY p.published_at DESC can give (NULL sorts last, the
\* order of equal keys is not defined)
PublishedKey(id) ==
  LET p == CHOOSE q \in posts : q.id = id IN
  IF p.published_at = JsNull THEN 0 - 1 ELSE p.published_at.v

PostOrders(ids) ==
  {o \in [1..Cardinality(ids) -> ids] :
     /\ \A i, k \in DOMAIN o : i # k => o[i] # o[k]
     /\ \A i, k \in DOMAIN o : i < k => PublishedKey(o[i]) >= PublishedKey(o[k])}

\* LIMIT ? OFFSET ?
Slice(order, limit, offset) ==
  {order[i] : i \in {k \in DOMAIN order : offset < k /\ k <= offset + limit}}

Post_findAll(f, order) ==
  IF f.featured # JsNull /\ "is_featured" \notin PostColumns
  THEN [err |-> "ER_BAD_FIELD_ERROR", data |-> {}, pagination |-> NoRow]
  ELSE
    LET rows == {j \in PostJoin : PostWhere(j, f)}
        total == Cardinality({j.p.id : j \in rows})
    IN
    [err |-> "",
     data |-> Slice(order, f.limit, (f.page - 1) * f.limit),
     pagination |-> [total |-> total, page |-> f.page, limit |-> f.limit,
                     totalPages |-> Ceil(total, f.limit)]]

\* FROM pages p LEFT JOIN users u1 ... LEFT JOIN users u2 ... WHERE ...
PageWhere(p, f) ==
  /\ f.search # <<>> => Like(p.title, f.search)
  /\ f.status = "published" => p.is_published = Bool(TRUE)
  /\ f.status = "draft" => p.is_published = Bool(FALSE)

\* ORDER BY p.updated_at DESC
PageOrders(ids) ==
  {o \in [1..Cardinality(ids) -> ids] :
     /\ \A i, k \in DOMAIN o : i # k => o[i] # o[k]
     /\ \A i, k \in DOMAIN o : i < k =>
          (CHOOSE q \in pages : q.id = o[i]).updated_at.v
            >= (CHOOSE q \in pages : q.id = o[k]).updated_at.v}

Page_findAll(f, order) ==
  LET rows == {p \in pages : PageWhere(p, f)}
      total == Cardinality(rows)
  IN
  [err |-> "",
   data |-> Slice(order, f.limit, (f.page - 1) * f.limit),
   pagination |-> [total |-> total, page |-> f.page, limit |-> f.limit,
                   totalPages |-> Ceil(total, f.limit)]]

\* what a call of a model function gave: a value, or the error it threw
Outcome(op, req, err, value) ==
  [op |-> op, req |-> req, status |-> 0, message |-> err, users |-> {},
   token |-> NoToken, auth |-> NoAuth, value |-> value]

FindAllUnchanged ==
  UNCHANGED <<users, nextId, held, now, jwtSecretEnv, reg, content, posts, pages,
              post_categories, autoInc, leased, call, auxVars>>

Post_findAllCall(f) ==
  \E order \in PostOrders({j.p.id : j \in {k \in PostJoin : PostWhere(k, f)}}) :
    LET r == Post_findAll(f, order) IN
    /\ resp' = Outcome("Post.findAll", f, r.err,
                       [data |-> r.data, pagination |-> r.pagination])
    /\ FindAllUnchanged

Page_findAllCall(f) ==
  \E order \in PageOrders({p.id : p \in {q \in pages : PageWhere(q, f)}}) :
    LET r == Page_findAll(f, order) IN
    /\ resp' = Outcome("Page.findAll", f, r.err,
                       [data |-> r.data, pagination |-> r.pagination])
    /\ FindAllUnchanged

PostTables ==
  UNION {{{ListedPost(i, t[i], b[i]) : i \in 1..n} : t \in [1..n -> Titles],
                                                     b \in [1..n -> BOOLEAN]} :
           n \in 0..MaxRows}

PageTables ==
  UNION {{{ListedPage(i, t[i], b[i]) : i \in 1..n} : t \in [1..n -> Titles],
                                                     b \in [1..n -> BOOLEAN]} :
           n \in 0..MaxRows}

PostFilters ==
  [search : SearchTerms, status : {"published", "draft", "all"},
   category : {Undefined, "news"}, featured : {JsNull, Bool(TRUE)},
   page : 1..2, limit : 1..2]

PageFilters ==
  [search : SearchTerms, status : {"published", "draft", "all"}, page : 1..2, limit : 1..2]

InitFindAll ==
  /\ users = {SeedAdmin}
  /\ nextId = 2
  /\ held = NoToken
  /\ now = 0
  /\ jwtSecretEnv = Unset
  /\ reg = [r \in 1..MaxReq |-> Idle]
  /\ resp = NoResp
  /\ content = {}
  /\ \/ /\ posts \in PostTables
        /\ post_categories \in SUBSET ({p.id : p \in posts} \X {c.id : c \in Categories})
        /\ pages = {}
     \/ /\ pages \in PageTables
        /\ posts = {}
        /\ post_categories = {}
  /\ autoInc = [content |-> 1, posts |-> Cardinality(posts) + 1]
  /\ leased = NoLease
  /\ call = <<>>
  /\ AuxEmpty

NextFindAll ==
  \/ \E f \in PostFilters : Post_findAllCall(f)
  \/ \E f \in PageFilters : Page_findAllCall(f)

SpecFindAll == InitFindAll /\ [][NextFindAll]_vars

\* the entities that satisfy the supplied filters
MatchingPosts(f) ==
  {p.id : p \in {q \in posts :
     /\ f.search # <<>> => Like(q.title, f.search)
     /\ f.status = "published" => q.is_published = Bool(TRUE)
     /\ f.status = "draft" => q.is_published = Bool(FALSE)
     /\ f.category # Undefined =>
          \E c \in Categories : c.slug = f.category /\ <<q.id, c.id>> \in post_categories}}

MatchingPages(f) ==
  {p.id : p \in {q \in pages :
     /\ f.search # <<>> => Like(q.title, f.search)
     /\ f.status = "published" => q.is_published = Bool(TRUE)
     /\ f.status = "draft" => q.is_published = Bool(FALSE)}}

\* C15: on tables that do not change during the call, Post.findAll and
\* Page.findAll return, for every combination of search, status, category
\* and featured filters and every page, pagination.total equal to the
\* number of distinct entities that satisfy the filters, a page of at most
\* limit entities that all satisfy the filters, and totalPages equal to
\* ceil(total / limit).
C15_TotalMatchesFilters ==
  resp.op \in {"Post.findAll", "Page.findAll"} =>
    LET f == resp.req
        matching == IF resp.op = "Post.findAll" THEN MatchingPosts(f) ELSE MatchingPages(f)
    IN
    /\ resp.message = ""
    /\ resp.value.pagination.total = Cardinality(matching)
    /\ Cardinality(resp.value.data) <= f.limit
    /\ resp.value.data \subseteq matching
    /\ resp.value.pagination.totalPages = Ceil(Cardinality(matching), f.limit)

\* =====================================================================
\* Post.create (part_000:373) and Post.update (part_000:612): each call
\* leases a connection, runs its statements in a transaction and releases
\* the connection in finally.  Every await is a step; calls interleave.
\* posts and post_categories hold the committed rows, which is what a
\* statement outside the transaction reads; a call's own writes are in
\* call[p].w until its commit.
\* =====================================================================
MaxCalls == 2                            \* Post calls in flight at once
MaxPosts == 2                            \* post rows ever inserted

connectionLimit == 10                    \* config/db.js

CategoryIds == {c.id : c \in Categories}
Range(seq) == {seq[i] : i \in DOMAIN seq}
LinksOf(links, id) == {l[2] : l \in {k \in links : k[1] = id}}

NoWrites == [post |-> NoRow, unlinked |-> {}, links |-> {}]

IdleCall ==
  [pc |-> "idle", op |-> "", id |-> 0, isPublished |-> JsNull, categoryIds |-> <<>>,
   w |-> NoWrites, committed |-> FALSE, outcome |-> "", acquired |-> 0, released |-> 0]

PostUnchanged ==
  UNCHANGED <<users, nextId, held, now, jwtSecretEnv, reg, content, pages, auxVars>>

InFlight(p) == call[p].pc # "idle"

\* the call is over: what it gave its caller, and what it did on the way
Finished(c) ==
  Outcome("Post." \o c.op,
          [id |-> c.id, categoryIds |-> c.categoryIds], "",
          [outcome |-> c.outcome, committed |-> c.committed, acquired |-> c.acquired,
           released |-> c.released, unlinked |-> c.w.unlinked])

\* pool.getConnection(): waits while every connection is leased
getConnection(p, op, id, isPublished, categoryIds, ok) ==
  /\ ~InFlight(p)
  /\ PostUnchanged
  /\ UNCHANGED <<posts, post_categories, autoInc>>
  /\ IF ~ok
     THEN /\ resp' = Finished([IdleCall EXCEPT !.op = op, !.id = id,
                                                !.categoryIds = categoryIds,
                                                !.outcome = "threw"])
          /\ UNCHANGED <<call, leased>>
     ELSE /\ leased.calls + leased.others < connectionLimit
          /\ leased' = [leased EXCEPT !.calls = @ + 1]
          /\ Pending
          /\ call' = [call EXCEPT ![p] =
                        [IdleCall EXCEPT !.pc = "begin", !.op = op, !.id = id,
                                         !.isPublished = isPublished,
                                         !.categoryIds = categoryIds, !.acquired = 1]]

\* Post.create({isPublished, authorId, categoryIds})
Post_create(p, isPublished, categoryIds, ok) ==
  /\ autoInc.posts + Cardinality({q \in DOMAIN call : call[q].op = "create"
                                     /\ call[q].pc \in {"begin", "insert"}}) <= MaxPosts
  /\ getConnection(p, "create", 0, isPublished, categoryIds, ok)

\* Post.update(id, {isPublished, categoryIds})
Post_update(p, id, isPublished, categoryIds, ok) ==
  getConnection(p, "update", id, isPublished, categoryIds, ok)

Step(p, c) ==
  /\ call' = [call EXCEPT ![p] = c]
  /\ Pending
  /\ PostUnchanged

\* a statement failed: the catch block is next
Caught(p) ==
  /\ Step(p, [call[p] EXCEPT !.pc = "rollback"])
  /\ UNCHANGED <<posts, post_categories, autoInc, leased>>

\* await connection.beginTransaction()
beginTransaction(p, ok) ==
  /\ call[p].pc = "begin"
  /\ IF ~ok THEN Caught(p)
     ELSE /\ Step(p, [call[p] EXCEPT !.pc = IF call[p].op = "create" THEN "insert"
                                                                    ELSE "update"])
          /\ UNCHANGED <<posts, post_categories, autoInc, leased>>

\* INSERT INTO posts (..., is_published, author_id, published_at)
\* VALUES (..., isPublished, authorId, isPublished ? new Date() : null)
InsertPost(p, ok) ==
  /\ call[p].pc = "insert"
  /\ IF ~ok THEN Caught(p)
     ELSE LET row == PostRow(autoInc.posts, Num(1), call[p].isPublished,
                             IF Truthy(call[p].isPublished) THEN Date(now) ELSE JsNull)
          IN
          /\ autoInc' = [autoInc EXCEPT !.posts = @ + 1]
          /\ Step(p, [call[p] EXCEPT !.pc = "links", !.id = row.id, !.w.post = row])
          /\ UNCHANGED <<posts, post_categories, leased>>

\* an UPDATE that waited for no lock
RowLocked_Never(p, id) == FALSE

\* another transaction has written the row and not yet ended
RowLocked(p, id) ==
  \E q \in DOMAIN call : q # p /\ ~call[q].committed
                         /\ call[q].w.post # NoRow /\ call[q].w.post.id = id

\* a CASE without "AND published_at IS NULL"
PublishedAtCase_AlwaysNow(isPublished, publishedAt) ==
  IF isPublished = Bool(TRUE) THEN Date(now)
  ELSE IF isPublished = Bool(FALSE) THEN JsNull
  ELSE publishedAt

\* published_at = CASE WHEN ? = TRUE AND published_at IS NULL THEN NOW()
\*                     WHEN ? = FALSE THEN NULL ELSE published_at END
PublishedAtCase(isPublished, publishedAt) ==
  IF isPublished = Bool(TRUE) /\ publishedAt = JsNull THEN Date(now)
  ELSE IF isPublished = Bool(FALSE) THEN JsNull
  ELSE publishedAt

\* UPDATE posts SET ..., is_published = ?, published_at = CASE ... WHERE id = ?
UpdatePost(p, ok) ==
  /\ call[p].pc = "update"
  /\ ~RowLocked(p, call[p].id)
  /\ IF ~ok THEN Caught(p)
     ELSE IF ~\E r \in posts : r.id = call[p].id THEN Caught(p)
     ELSE LET old == CHOOSE r \in posts : r.id = call[p].id
              row == [old EXCEPT !.is_published = call[p].isPublished,
                                 !.published_at = PublishedAtCase(call[p].isPublished,
                                                                  old.published_at)]
          IN
          /\ Step(p, [call[p] EXCEPT !.pc = "unlink", !.w.post = row])
          /\ UNCHANGED <<posts, post_categories, autoInc, leased>>

\* DELETE FROM post_categories WHERE post_id = ?
DeleteLinks_None(links, id) == {}

DeleteLinks(links, id) == {l \in links : l[1] = id}

DeleteLinksStep(p, ok) ==
  /\ call[p].pc = "unlink"
  /\ IF ~ok THEN Caught(p)
     ELSE /\ Step(p, [call[p] EXCEPT !.pc = "links",
                                     !.w.unlinked = DeleteLinks(post_categories, call[p].id)])
          /\ UNCHANGED <<posts, post_categories, autoInc, leased>>

\* what the transaction sees in post_categories
LinksSeen(p) == (post_categories \ call[p].w.unlinked) \cup call[p].w.links

\* INSERT INTO post_categories (post_id, category_id) VALUES ?
\* PRIMARY KEY (post_id, category_id); category_id REFERENCES categories(id)
InsertLinks(p, ok) ==
  /\ call[p].pc = "links"
  /\ LET ids == call[p].categoryIds
         rows == {<<call[p].id, c>> : c \in Range(ids)}
     IN
     IF Len(ids) = 0
     THEN /\ Step(p, [call[p] EXCEPT !.pc = "commit"])
          /\ UNCHANGED <<posts, post_categories, autoInc, leased>>
     ELSE IF ~ok THEN Caught(p)
     ELSE IF Cardinality(Range(ids)) < Len(ids) \/ rows \cap LinksSeen(p) # {}
     THEN Caught(p)
     ELSE IF ~(Range(ids) \subseteq CategoryIds) THEN Caught(p)
     ELSE /\ Step(p, [call[p] EXCEPT !.pc = "commit", !.w.links = rows])
          /\ UNCHANGED <<posts, post_categories, autoInc, leased>>

\* the committed tables once the writes of a transaction are applied
PostsWith(w) == {r \in posts : r.id # w.post.id} \cup {w.post}
LinksWith(w) == (post_categories \ w.unlinked) \cup w.links

\* finally { connection.release(); }
Release_Leak(n) == n

Release(n) == n - 1

\* await connection.commit(); return this.findById(id);
\* the returned promise is not awaited inside the try block: once the commit
\* has resolved, findById is started, the finally block releases the
\* connection, and only then does the call settle with what findById gives
Commit(p, ok) ==
  /\ call[p].pc = "commit"
  /\ IF ~ok THEN Caught(p)
     ELSE /\ posts' = PostsWith(call[p].w)
          /\ post_categories' = LinksWith(call[p].w)
          /\ leased' = [leased EXCEPT !.calls = Release(@)]
          /\ Step(p, [call[p] EXCEPT !.pc = "findById", !.committed = TRUE,
                                     !.released = @ + 1])
          /\ UNCHANGED autoInc

\* findById(id): pool.execute on a connection of its own; its rejection
\* reaches the caller without passing through the catch block
ReturnFindById(p, ok) ==
  /\ call[p].pc = "findById"
  /\ leased.calls + leased.others < connectionLimit
  /\ call' = [call EXCEPT ![p] = IdleCall]
  /\ resp' = Finished([call[p] EXCEPT !.outcome = IF ok THEN "returned" ELSE "threw"])
  /\ PostUnchanged
  /\ UNCHANGED <<posts, post_categories, autoInc, leased>>

\* catch (error) { await connection.rollback(); throw error; }
\* what the transaction wrote and did not commit is dropped; a rollback that
\* fails throws in place of the first error
Rollback(p, ok) ==
  /\ call[p].pc = "rollback"
  /\ Step(p, [call[p] EXCEPT !.pc = "finally", !.outcome = "threw", !.w = NoWrites])
  /\ UNCHANGED <<posts, post_categories, autoInc, leased>>

\* the finally block on the way out of the catch block
Finally(p) ==
  /\ call[p].pc = "finally"
  /\ leased' = [leased EXCEPT !.calls = Release(@)]
  /\ call' = [call EXCEPT ![p] = IdleCall]
  /\ resp' = Finished([call[p] EXCEPT !.released = @ + 1])
  /\ PostUnchanged
  /\ UNCHANGED <<posts, post_categories, autoInc>>

IsPublishedArgs == {Bool(TRUE), Bool(FALSE), JsNull}
CategoryIdArgs == {<<>>, <<1>>, <<1, 2>>, <<2, 2>>}

\* one caller at a time, every argument
InitPostOne ==
  /\ users = {SeedAdmin}
  /\ nextId = 2
  /\ held = NoToken
  /\ now = 0
  /\ jwtSecretEnv = Unset
  /\ reg = [r \in 1..MaxReq |-> Idle]
  /\ resp = NoResp
  /\ content = {}
  /\ posts = {}
  /\ pages = {}
  /\ post_categories = {}
  /\ autoInc = [content |-> 1, posts |-> 1]
  /\ leased = NoLease
  /\ call = [p \in {1} |-> IdleCall]
  /\ AuxEmpty

NextPostOne ==
  \/ \E b \in IsPublishedArgs, c \in CategoryIdArgs, ok \in BOOLEAN : Post_create(1, b, c, ok)
  \/ \E id \in 1..MaxPosts, b \in IsPublishedArgs, c \in CategoryIdArgs, ok \in BOOLEAN :
       Post_update(1, id, b, c, ok)
  \/ \E ok \in BOOLEAN : beginTransaction(1, ok)
  \/ \E ok \in BOOLEAN : InsertPost(1, ok)
  \/ \E ok \in BOOLEAN : UpdatePost(1, ok)
  \/ \E ok \in BOOLEAN : DeleteLinksStep(1, ok)
  \/ \E ok \in BOOLEAN : InsertLinks(1, ok)
  \/ \E ok \in BOOLEAN : Commit(1, ok)
  \/ \E ok \in BOOLEAN : ReturnFindById(1, ok)
  \/ \E ok \in BOOLEAN : Rollback(1, ok)
  \/ Finally(1)

SpecPostOne == InitPostOne /\ [][NextPostOne]_vars

\* interleaved callers

InitPost ==
  /\ users = {SeedAdmin}
  /\ nextId = 2
  /\ held = NoToken
  /\ now = 0
  /\ jwtSecretEnv = Unset
  /\ reg = [r \in 1..MaxReq |-> Idle]
  /\ resp = NoResp
  /\ content = {}
  /\ posts = {}
  /\ pages = {}
  /\ post_categories = {}
  /\ autoInc = [content |-> 1, posts |-> 1]
  /\ leased = [calls |-> 0, others |-> connectionLimit - MaxCalls]
  /\ call = [p \in 1..MaxCalls |-> IdleCall]
  /\ AuxEmpty

\* the concurrent callers update one post: the first row, which is missing
\* until a create has committed it
ContendedIds == {1}

NextPost ==
  \/ \E p \in 1..MaxCalls, ok \in BOOLEAN : Post_create(p, Bool(TRUE), <<1>>, ok)
  \/ \E p \in 1..MaxCalls, id \in ContendedIds, ok \in BOOLEAN :
       Post_update(p, id, Bool(FALSE), <<2>>, ok)
  \/ \E p \in 1..MaxCalls, ok \in BOOLEAN : beginTransaction(p, ok)
  \/ \E p \in 1..MaxCalls, ok \in BOOLEAN : InsertPost(p, ok)
  \/ \E p \in 1..MaxCalls, ok \in BOOLEAN : UpdatePost(p, ok)
  \/ \E p \in 1..MaxCalls, ok \in BOOLEAN : DeleteLinksStep(p, ok)
  \/ \E p \in 1..MaxCalls, ok \in BOOLEAN : InsertLinks(p, ok)
  \/ \E p \in 1..MaxCalls, ok \in BOOLEAN : Commit(p, ok)
  \/ \E p \in 1..MaxCalls, ok \in BOOLEAN : ReturnFindById(p, ok)
  \/ \E p \in 1..MaxCalls, ok \in BOOLEAN : Rollback(p, ok)
  \/ \E p \in 1..MaxCalls : Finally(p)

SpecPost == InitPost /\ [][NextPost]_vars

\* the last Post call to finish, as its caller saw it
PostCallOver(op) == resp # NoResp /\ resp.op = "Post." \o op

\* C16: after Post.update(id, {categoryIds: S}) has returned, the category
\* links of post id are exactly S, whatever they were before.  (The link
\* table is keyed by (post_id, category_id), so a link cannot be there twice.)
C16_LinksExactlyS ==
  (PostCallOver("update") /\ resp.value.outcome = "returned")
    => LinksOf(post_categories, resp.req.id) = Range(resp.req.categoryIds)

\* an update has returned that removed a link to a category outside its S
C16_Witness ==
  /\ PostCallOver("update")
  /\ resp.value.outcome = "returned"
  /\ \E l \in resp.value.unlinked : l[2] \notin Range(resp.req.categoryIds)
  /\ Range(resp.req.categoryIds) # {}

\* C17: Post.create and Post.update are all-or-nothing with respect to their
\* outcome: a call that throws has persisted nothing, a call that returns
\* has persisted the post row and its links, and the committed tables only
\* ever change by the whole of one call's writes at once.
C17_AllOrNothing ==
  /\ []((PostCallOver("create") \/ PostCallOver("update"))
          => (resp.value.outcome = "returned" <=> resp.value.committed))
  /\ [][(posts' # posts \/ post_categories' # post_categories)
          => \E p \in DOMAIN call :
               /\ call[p].pc = "commit"
               /\ posts' = PostsWith(call[p].w)
               /\ post_categories' = LinksWith(call[p].w)]_vars

\* C18: every connection Post.create or Post.update takes from the pool is
\* released exactly once on every way out, so the pool never leases more
\* than connectionLimit connections and none is leased once all calls are over.
C18_ReleasedExactlyOnce ==
  /\ leased.calls + leased.others <= connectionLimit
  /\ leased.calls = Cardinality({p \in DOMAIN call : call[p].acquired > call[p].released})
  /\ \A p \in DOMAIN call : call[p].released <= call[p].acquired
  /\ (PostCallOver("create") \/ PostCallOver("update"))
       => resp.value.released = resp.value.acquired
  /\ (\A p \in DOMAIN call : ~InFlight(p)) => leased.calls = 0

\* a call has thrown after taking a connection, and nothing is leased
C18_Witness ==
  /\ PostCallOver("update")
  /\ resp.value.outcome = "threw"
  /\ resp.value.acquired = 1
  /\ resp.value.released = 1
  /\ \A p \in DOMAIN call : ~InFlight(p)
  /\ leased.calls = 0

\* C19: in every post row, published_at is null when is_published is not
\* true and is not null when is_published is true.
C19_PublishedAtFollowsFlag ==
  \A r \in posts : (r.is_published = Bool(TRUE)) <=> (r.published_at # JsNull)

\* =====================================================================
\* The three login handlers over one users table: login of the auth
\* controller (part_000:62, User.login part_000:313), POST /api/auth/login
\* of server.js (server.js:446) and of the alternate server (part_000:1574).
\* toggleUserStatus is what deactivates an account.
\* =====================================================================
InitLogin ==
  /\ users = {SeedAdmin,
              User_create(2, [username |-> "ann", email |-> "ann@go.org",
                              password |-> "Str0ng!Pass", role |-> "viewer"])}
  /\ nextId = 3
  /\ held = NoToken
  /\ now = 0
  /\ jwtSecretEnv \in EnvValues
  /\ reg = [r \in 1..MaxReq |-> Idle]
  /\ resp = NoResp
  /\ CmsEmpty

NextLogin ==
  \/ \E e \in Emails, p \in Passwords : login(e, p) /\ UNCHANGED cmsVars
  \/ \E e \in Emails, p \in Passwords : POST_api_auth_login(e, p) /\ UNCHANGED cmsVars
  \/ \E e \in Emails, p \in Passwords : AltLogin(e, p) /\ UNCHANGED cmsVars
  \/ \E h \in Headers, id \in TargetIds : toggleUserStatus(h, id) /\ UNCHANGED cmsVars
  \/ Tick /\ UNCHANGED cmsVars

SpecLogin == InitLogin /\ [][NextLogin]_vars

LoginOps == {"login", "POST /api/auth/login"}

\* C21: no login handler issues a token for an account whose is_active
\* flag is false: the token a login answers with names an active account,
\* and a login that issues no token leaves the users table (last_login
\* included) as it was.
C21_InactiveLoginRejected ==
  /\ []((resp # NoResp /\ resp.op \in LoginOps /\ resp.token # NoToken)
          => \E r \in users : r.id = resp.token.id /\ r.is_active)
  /\ [][(resp'.op \in LoginOps /\ resp'.token = NoToken) => users' = users]_vars

\* =====================================================================
\* server.js: what its catch blocks send, for each value of NODE_ENV.
\* A query that fails throws an error whose message is the driver's text.
\* =====================================================================
NodeEnvs == {Unset, "development", "production"}
DriverErrors == {"ER_DUP_ENTRY", "ECONNREFUSED"}

\* GET /api/content (server.js:315)
GET_api_content(h, err) ==
  LET a == authenticateToken(h)
      op == "GET /api/content"
  IN
  IF ~a.next THEN Refused("authenticateToken", NoReq, a, a)
  ELSE /\ resp' = IF err # "" THEN handleDbError(op, a, err)
                  ELSE Response(op, NoReq, 200, "", {}, NoToken, a)
       /\ UNCHANGED <<users, nextId, held, now, jwtSecretEnv, reg>>

\* POST /api/auth/login (server.js:446) when its query fails: the catch
\* block at server.js:480
LoginQueryFails(err) ==
  /\ resp' = WithError(Response("POST /api/auth/login", NoReq, 500, "Error during login",
                                {}, NoToken, NoAuth), err)
  /\ UNCHANGED <<users, nextId, held, now, jwtSecretEnv, reg>>

InitErrors ==
  /\ users = {SrvSeedAdmin}
  /\ nextId = 2
  /\ held = NoToken
  /\ now = 0
  /\ jwtSecretEnv = "env-secret"
  /\ reg = [r \in 1..MaxReq |-> Idle]
  /\ resp = NoResp
  /\ content = {}
  /\ posts = {}
  /\ pages = {}
  /\ post_categories = {}
  /\ autoInc = [content |-> 1, posts |-> 1]
  /\ leased = NoLease
  /\ call = <<>>
  /\ nodeEnv \in NodeEnvs
  /\ settings = <<>>
  /\ conns = <<>>
  /\ media = NoMedia
  /\ files = {}
  /\ categories = {}
  /\ listing = NoRow
  /\ put = NoRow

NextErrors ==
  \/ \E h \in Headers, err \in DriverErrors \cup {""} : GET_api_content(h, err) /\ UNCHANGED cmsVars
  \/ \E h \in Headers, id \in PathIds, body \in PutBodies : PUT_api_users(h, id, body) /\ UNCHANGED cmsVars
  \/ \E e \in SrvEmails :
       POST_api_auth_register_admin([name |-> SrvName, email |-> e, password |-> "Str0ng!Pass"]) /\ UNCHANGED cmsVars
  \/ \E e \in SrvEmails, p \in StrongPasswords : POST_api_auth_login(e, p) /\ UNCHANGED cmsVars
  \/ \E err \in DriverErrors : LoginQueryFails(err) /\ UNCHANGED cmsVars

SpecErrors == InitErrors /\ [][NextErrors]_vars

\* C22: when NODE_ENV is not development, no 5xx response of server.js
\* carries the raw database or driver error text.
C22_NoRawErrorOutsideDevelopment ==
  (resp.status >= 500 /\ nodeEnv # "development") => "error" \notin DOMAIN resp

\* C29: in server.js a token issued by POST /api/auth/login (or by
\* POST /api/auth/register-admin) passes authenticateToken until it
\* expires, whether JWT_SECRET is set or not.
C29_IssuedTokenAccepted ==
  [][(/\ resp'.auth # NoAuth
      /\ held # NoToken
      /\ resp'.auth.header = [bearer |-> TRUE, token |-> held]
      /\ now < held.exp)
       => resp'.auth.next]_vars

\* =====================================================================
\* Post.create / Post.update while the clock runs: one call at a time,
\* no category, every value of isPublished.
\* =====================================================================
NextPublish ==
  \/ \E b \in IsPublishedArgs, ok \in BOOLEAN : Post_create(1, b, <<>>, ok)
  \/ \E id \in 1..MaxPosts, b \in IsPublishedArgs, ok \in BOOLEAN :
       Post_update(1, id, b, <<>>, ok)
  \/ \E ok \in BOOLEAN : beginTransaction(1, ok)
  \/ \E ok \in BOOLEAN : InsertPost(1, ok)
  \/ \E ok \in BOOLEAN : UpdatePost(1, ok)
  \/ \E ok \in BOOLEAN : DeleteLinksStep(1, ok)
  \/ \E ok \in BOOLEAN : InsertLinks(1, ok)
  \/ \E ok \in BOOLEAN : Commit(1, ok)
  \/ \E ok \in BOOLEAN : ReturnFindById(1, ok)
  \/ \E ok \in BOOLEAN : Rollback(1, ok)
  \/ Finally(1)
  \/ Tick /\ UNCHANGED cmsVars

SpecPublish == InitPostOne /\ [][NextPublish]_vars

\* the UPDATE statement of a Post.update call has just run
UpdateRan(p) ==
  call[p].op = "update" /\ call[p].pc = "update" /\ call'[p].pc = "unlink"

\* C24: across Post.update calls published_at changes only on a publication
\* transition: isPublished true keeps a timestamp that is there and sets a
\* missing one to the current time, isPublished false sets it to null, and
\* the row the call commits is the row that statement wrote.
C24_PublishedAtTransitions ==
  [][\A p \in DOMAIN call :
       /\ UpdateRan(p) =>
            LET old == CHOOSE r \in posts : r.id = call[p].id
                new == call'[p].w.post
                flag == call[p].isPublished
            IN
            /\ (flag = Bool(TRUE) /\ old.published_at # JsNull)
                 => new.published_at = old.published_at
            /\ (flag = Bool(TRUE) /\ old.published_at = JsNull)
                 => new.published_at = Date(now)
            /\ flag = Bool(FALSE) => new.published_at = JsNull
            /\ flag \notin {Bool(TRUE), Bool(FALSE)} => new.published_at = old.published_at
       /\ (call[p].op = "update" /\ call[p].pc = "commit" /\ call'[p].committed)
            => call[p].w.post \in posts']_vars

\* an update with isPublished true has run, later than the timestamp the
\* post already had, and kept it
C24_Witness ==
  \E p \in DOMAIN call :
    /\ call[p].op = "update"
    /\ call[p].pc = "unlink"
    /\ call[p].isPublished = Bool(TRUE)
    /\ \E r \in posts : r.id = call[p].id /\ r.published_at = Date(0)
    /\ call[p].w.post.published_at = Date(0)
    /\ now > 0

\* =====================================================================
\* Post.findAll / Page.findAll called without filters: the parameters the
\* caller leaves out take the defaults of the destructuring pattern.
\* =====================================================================
\* static async findAll({ search = '', status = 'published', category = null,
\*                        page = 1, limit = 10, featured = null } = {})
PostDefaults ==
  [search |-> <<>>, status |-> "published", category |-> Undefined, page |-> 1,
   limit |-> 10, featured |-> JsNull]

\* static async findAll({ search = '', status = 'all', page = 1, limit = 10 } = {})
PageDefaults == [search |-> <<>>, status |-> "all", page |-> 1, limit |-> 10]

\* a destructuring pattern with defaults, applied to the argument object
Destructure(args, defaults) ==
  [k \in DOMAIN defaults |-> IF k \in DOMAIN args THEN args[k] ELSE defaults[k]]

\* what a caller that sets no filter passes: nothing, or the page wanted
Unfiltered == {<<>>} \cup [page : 1..2, limit : 1..2]

NextDefaults ==
  \/ \E args \in Unfiltered : Post_findAllCall(Destructure(args, PostDefaults))
  \/ \E args \in Unfiltered : Page_findAllCall(Destructure(args, PageDefaults))

SpecDefaults == InitFindAll /\ [][NextDefaults]_vars

Min(a, b) == IF a < b THEN a ELSE b

\* C26: Post.findAll and Page.findAll called with every filter at its
\* default add no predicate: total counts every row of the table, published
\* or not, and each page holds the rows that are left at its offset.
C26_DefaultsAddNoPredicate ==
  (resp.op \in {"Post.findAll", "Page.findAll"}) =>
    LET rows == IF resp.op = "Post.findAll" THEN Cardinality(posts) ELSE Cardinality(pages)
        f == resp.req
        offset == (f.page - 1) * f.limit
    IN
    /\ resp.message = ""
    /\ resp.value.pagination.total = rows
    /\ Cardinality(resp.value.data) = Min(f.limit, IF rows > offset THEN rows - offset ELSE 0)

\* =====================================================================
\* Category folding of Post.findById (part_000:433), Post.findBySlug
\* (part_000:472) and Post.findAll (part_000:580): the query gives
\* GROUP_CONCAT(DISTINCT c.id) and GROUP_CONCAT(DISTINCT c.name) for each
\* post, and the application splits the two strings and zips them.
\* =====================================================================
CategoryNames == {"News", "Events"}

\* categories: id PRIMARY KEY, name NOT NULL, slug NOT NULL UNIQUE
CategoryTables ==
  {{[id |-> c.id, slug |-> c.slug, name |-> n[c.id]] : c \in Categories} :
     n \in [CategoryIds -> CategoryNames]}

\* the categories rows joined to post id that pass the WHERE clause
\* (category: the slug Post.findAll filters on, Undefined without filter)
JoinedCategories(id, category) ==
  {c \in categories : /\ <<id, c.id>> \in post_categories
                      /\ category # Undefined => c.slug = category}

\* GROUP_CONCAT(DISTINCT x): the distinct values, in an order the query
\* does not fix; NULL (no list) when the group has no value
GroupConcatDistinct(values) ==
  {o \in [1..Cardinality(values) -> values] : \A i, k \in DOMAIN o : i # k => o[i] # o[k]}

\* categoryIds.map((id, index) => ({ id, name: categoryNames[index] }))
\* behind if (post.category_ids) ... else post.categories = []
FormatCategories(ids, names) ==
  [i \in 1..Len(ids) |->
     [id |-> ids[i], name |-> IF i <= Len(names) THEN names[i] ELSE Undefined]]

FoldUnchanged ==
  UNCHANGED <<users, nextId, held, now, jwtSecretEnv, reg, content, posts, pages,
              post_categories, autoInc, leased, call, auxVars>>

\* the categories of the post that Post.findById(id) returns
Post_findByIdCategories(id) ==
  LET joined == JoinedCategories(id, Undefined) IN
  /\ \E p \in posts : p.id = id
  /\ \E ids \in GroupConcatDistinct({c.id : c \in joined}),
        names \in GroupConcatDistinct({c.name : c \in joined}) :
       resp' = Outcome("Post.findById", [id |-> id, category |-> Undefined], "",
                       [categories |-> FormatCategories(ids, names)])
  /\ FoldUnchanged

\* the categories of post id in the page that Post.findAll({category}) returns
Post_findAllCategories(id, category) ==
  LET joined == JoinedCategories(id, category) IN
  /\ \E p \in posts : p.id = id
  /\ category # Undefined => joined # {}
  /\ \E ids \in GroupConcatDistinct({c.id : c \in joined}),
        names \in GroupConcatDistinct({c.name : c \in joined}) :
       resp' = Outcome("Post.findAll", [id |-> id, category |-> category], "",
                       [categories |-> FormatCategories(ids, names)])
  /\ FoldUnchanged

InitFold ==
  /\ users = {SeedAdmin}
  /\ nextId = 2
  /\ held = NoToken
  /\ now = 0
  /\ jwtSecretEnv = Unset
  /\ reg = [r \in 1..MaxReq |-> Idle]
  /\ resp = NoResp
  /\ content = {}
  /\ posts = {ListedPost(i, <<"c">>, TRUE) : i \in 1..MaxRows}
  /\ post_categories \in SUBSET ({p.id : p \in posts} \X CategoryIds)
  /\ pages = {}
  /\ autoInc = [content |-> 1, posts |-> MaxRows + 1]
  /\ leased = NoLease
  /\ call = <<>>
  /\ nodeEnv = Unset
  /\ settings = <<>>
  /\ conns = <<>>
  /\ media = NoMedia
  /\ files = {}
  /\ categories \in CategoryTables
  /\ listing = NoRow
  /\ put = NoRow

NextFold ==
  \/ \E id \in 1..MaxRows : Post_findByIdCategories(id)
  \/ \E id \in 1..MaxRows, category \in {Undefined, "news"} : Post_findAllCategories(id, category)

SpecFold == InitFold /\ [][NextFold]_vars

\* C25: for every post returned by Post.findById or Post.findAll,
\* categories is a list that holds exactly one {id, name} pair per category
\* linked to the post, each pair giving the name stored for that id.
C25_CategoriesMatchLinks ==
  (resp.op \in {"Post.findById", "Post.findAll"}) =>
    LET linked == {c \in categories : <<resp.req.id, c.id>> \in post_categories}
        list == resp.value.categories
    IN
    /\ Len(list) = Cardinality(linked)
    /\ Range(list) = {[id |-> c.id, name |-> c.name] : c \in linked}

\* =====================================================================
\* Post.findAll next to a writer: the count query (part_000:554) and the
\* page query (part_000:569) are two pool.execute calls, each a statement
\* of its own; Post.create / Post.update calls commit in between.
\* =====================================================================
ListingFilters ==
  [search : {<<>>}, status : {"published", "all"}, category : {Undefined},
   featured : {JsNull}, page : {1}, limit : {MaxPosts}]

\* const [countRows] = await pool.execute(`SELECT COUNT(DISTINCT p.id) ...`)
Post_findAllCount(f) ==
  /\ listing = NoRow
  /\ listing' = [op |-> "Post.findAll", f |-> f,
                 total |-> Cardinality({j.p.id : j \in {k \in PostJoin : PostWhere(k, f)}})]
  /\ Pending
  /\ UNCHANGED <<users, nextId, held, now, jwtSecretEnv, reg, content, posts, pages,
                 post_categories, autoInc, leased, call, nodeEnv, settings, conns, media,
                 files, categories, put>>

\* const [rows] = await pool.execute(`SELECT p.*, ... LIMIT ? OFFSET ?`)
\* and the return statement
Post_findAllPage ==
  /\ listing # NoRow
  /\ LET f == listing.f IN
     \E order \in PostOrders({j.p.id : j \in {k \in PostJoin : PostWhere(k, f)}}) :
       resp' = Outcome("Post.findAll", f, "",
                       [data |-> Slice(order, f.limit, (f.page - 1) * f.limit),
                        pagination |-> [total |-> listing.total, page |-> f.page,
                                        limit |-> f.limit,
                                        totalPages |-> Ceil(listing.total, f.limit)]])
  /\ listing' = NoRow
  /\ UNCHANGED <<users, nextId, held, now, jwtSecretEnv, reg, content, posts, pages,
                 post_categories, autoInc, leased, call, nodeEnv, settings, conns, media,
                 files, categories, put>>

NextListing ==
  \/ \E f \in ListingFilters : Post_findAllCount(f)
  \/ Post_findAllPage
  \/ \E b \in {Bool(TRUE), Bool(FALSE)}, ok \in BOOLEAN : Post_create(1, b, <<>>, ok)
  \/ \E id \in 1..MaxPosts, b \in {Bool(TRUE), Bool(FALSE)}, ok \in BOOLEAN :
       Post_update(1, id, b, <<>>, ok)
  \/ \E ok \in BOOLEAN : beginTransaction(1, ok)
  \/ \E ok \in BOOLEAN : InsertPost(1, ok)
  \/ \E ok \in BOOLEAN : UpdatePost(1, ok)
  \/ \E ok \in BOOLEAN : DeleteLinksStep(1, ok)
  \/ \E ok \in BOOLEAN : InsertLinks(1, ok)
  \/ \E ok \in BOOLEAN : Commit(1, ok)
  \/ \E ok \in BOOLEAN : ReturnFindById(1, ok)
  \/ \E ok \in BOOLEAN : Rollback(1, ok)
  \/ Finally(1)

SpecListing == InitPostOne /\ [][NextListing]_vars

\* C23: Post.findAll behaves as one atomic read: the total it reports and
\* the page it returns describe the same database state, also when another
\* request inserts, publishes or unpublishes a matching row in between.
\* (The limit is the size of the table, so the first page holds every row
\* that the page query matched.)
C23_TotalAndPageAgree ==
  (resp.op = "Post.findAll") =>
    Cardinality(resp.value.data) = resp.value.pagination.total

\* =====================================================================
\* Post.update calls racing on one post: each caller writes field values
\* and a category set of its own.
\* =====================================================================
RaceIsPublished(p) == Bool(p % 2 = 1)
RaceCategoryIds(p) == <<((p - 1) % 2) + 1>>

InitRace ==
  /\ users = {SeedAdmin}
  /\ nextId = 2
  /\ held = NoToken
  /\ now = 0
  /\ jwtSecretEnv = Unset
  /\ reg = [r \in 1..MaxReq |-> Idle]
  /\ resp = NoResp
  /\ content = {}
  /\ posts = {PostRow(1, Num(1), Bool(FALSE), JsNull)}
  /\ pages = {}
  /\ post_categories \in {{}, {<<1, 1>>, <<1, 2>>}}
  /\ autoInc = [content |-> 1, posts |-> 2]
  /\ leased = [calls |-> 0, others |-> connectionLimit - MaxCalls]
  /\ call = [p \in 1..MaxCalls |-> IdleCall]
  /\ AuxEmpty

NextRace ==
  \/ \E p \in 1..MaxCalls, ok \in BOOLEAN :
       Post_update(p, 1, RaceIsPublished(p), RaceCategoryIds(p), ok)
  \/ \E p \in 1..MaxCalls, ok \in BOOLEAN : beginTransaction(p, ok)
  \/ \E p \in 1..MaxCalls, ok \in BOOLEAN : UpdatePost(p, ok)
  \/ \E p \in 1..MaxCalls, ok \in BOOLEAN : DeleteLinksStep(p, ok)
  \/ \E p \in 1..MaxCalls, ok \in BOOLEAN : InsertLinks(p, ok)
  \/ \E p \in 1..MaxCalls, ok \in BOOLEAN : Commit(p, ok)
  \/ \E p \in 1..MaxCalls, ok \in BOOLEAN : ReturnFindById(p, ok)
  \/ \E p \in 1..MaxCalls, ok \in BOOLEAN : Rollback(p, ok)
  \/ \E p \in 1..MaxCalls : Finally(p)

SpecRace == InitRace /\ [][NextRace]_vars

\* C30: when Post.update calls on the same post run concurrently with
\* different field values and category sets, the post row and the link set
\* always come from the same call, the last one to commit: a commit leaves
\* the row and exactly the links of the committing call, and nothing else
\* changes the committed tables.
C30_LastWriterWins ==
  [][/\ \A p \in DOMAIN call :
          (call[p].op = "update" /\ call[p].pc = "commit" /\ call'[p].committed) =>
            /\ \E r \in posts' : r.id = call[p].id /\ r.is_published = call[p].isPublished
            /\ LinksOf(post_categories', call[p].id) = Range(call[p].categoryIds)
     /\ (posts' # posts \/ post_categories' # post_categories) =>
          \E p \in DOMAIN call : call[p].pc = "commit" /\ call'[p].committed]_vars

\* two updates with different category sets have both committed: one has
\* returned and the other is about to
C30_Witness ==
  /\ PostCallOver("update")
  /\ resp.value.outcome = "returned"
  /\ \E p \in DOMAIN call :
       /\ call[p].pc = "findById"
       /\ call[p].committed
       /\ call[p].categoryIds # resp.req.categoryIds
       /\ LinksOf(post_categories, 1) \in {Range(call[p].categoryIds),
                                           Range(resp.req.categoryIds)}

\* =====================================================================
\* The media library of the content server: POST /api/media/upload
\* (part_000:1258) and DELETE /api/media/:id (part_000:1298).
\* =====================================================================
MaxMedia == 2
MaxFiles == 3

MediaUnchanged ==
  UNCHANGED <<users, nextId, held, now, jwtSecretEnv, reg, content, posts, pages,
              post_categories, autoInc, leased, call, nodeEnv, settings, conns,
              categories, listing, put>>

\* multer's filename: file.fieldname + '-' + uniqueSuffix + extension; the
\* suffix is one no stored file carries
UniqueSuffixes == 1..MaxFiles

\* POST /api/media/upload (part_000:1258): multer stores the file before the
\* handler runs; err is the outcome of the INSERT
POST_api_media_upload(h, hasFile, filename, err) ==
  LET a == CmsAuthenticateToken(h)
      op == "POST /api/media/upload"
      req == [id |-> 0, file |-> hasFile]
      row == [id |-> media.autoInc, file_name |-> filename, created_by |-> a.user.id]
  IN
  /\ MediaUnchanged
  /\ IF ~a.next
     THEN /\ resp' = Response("authenticateToken", NoReq, a.status, a.message, {}, NoToken,
                              [a EXCEPT !.next = FALSE])
          /\ UNCHANGED <<media, files>>
     ELSE IF ~hasFile
     THEN /\ resp' = Response(op, req, 400, "No file uploaded", {}, NoToken, a)
          /\ UNCHANGED <<media, files>>
     ELSE /\ filename \notin files
          /\ media.autoInc <= MaxMedia
          /\ files' = files \cup {filename}
          /\ IF err # ""
             THEN /\ resp' = Response(op, req, 500, "Error uploading file", {}, NoToken, a)
                  /\ media' = media
             ELSE /\ resp' = Response(op, req, 201, "", {}, NoToken, a)
                  /\ media' = [rows |-> media.rows \cup {row}, autoInc |-> media.autoInc + 1]

\* DELETE /api/media/:id (part_000:1298): selErr and delErr are the outcomes
\* of the SELECT and of the DELETE
DELETE_api_media(h, id, selErr, delErr) ==
  LET a == CmsAuthenticateToken(h)
      op == "DELETE /api/media/:id"
      req == [id |-> id, file |-> FALSE]
      found == {m \in media.rows : m.id = id}
  IN
  /\ MediaUnchanged
  /\ IF ~a.next
     THEN /\ resp' = Response("authenticateToken", NoReq, a.status, a.message, {}, NoToken,
                              [a EXCEPT !.next = FALSE])
          /\ UNCHANGED <<media, files>>
     ELSE IF selErr # ""
     THEN /\ resp' = Response(op, req, 500, "Error deleting media", {}, NoToken, a)
          /\ UNCHANGED <<media, files>>
     ELSE IF found = {}
     THEN /\ resp' = Response(op, req, 404, "Media not found", {}, NoToken, a)
          /\ UNCHANGED <<media, files>>
     ELSE \* if (fs.existsSync(filePath)) fs.unlinkSync(filePath)
          /\ files' = files \ {m.file_name : m \in found}
          /\ IF delErr # ""
             THEN /\ resp' = Response(op, req, 500, "Error deleting media", {}, NoToken, a)
                  /\ media' = media
             ELSE /\ resp' = Response(op, req, 200, "", {}, NoToken, a)
                  /\ media' = [media EXCEPT !.rows = @ \ found]

InitMedia == InitContent

NextMedia ==
  \/ \E h \in ContentHeaders(CmsVerifyKey), hasFile \in BOOLEAN, filename \in UniqueSuffixes,
        err \in DriverErrors \cup {""} :
       POST_api_media_upload(h, hasFile, filename, err)
  \/ \E h \in ContentHeaders(CmsVerifyKey), id \in 1..(MaxMedia + 1),
        selErr \in {"", "ECONNREFUSED"}, delErr \in {"", "ECONNREFUSED"} :
       DELETE_api_media(h, id, selErr, delErr)

SpecMedia == InitMedia /\ [][NextMedia]_vars

\* C28: after DELETE /api/media/:id finishes with any outcome (success,
\* unknown id, or a database failure on the row delete), the media row
\* exists if and only if its backing file exists; on success neither exists.
C28_RowIffFile ==
  [][(resp'.op = "DELETE /api/media/:id") =>
       \A m \in media.rows :
         (m.id = resp'.req.id /\ m.file_name \in files) =>
           /\ (m \in media'.rows) <=> (m.file_name \in files')
           /\ (resp'.status = 200) => (m \notin media'.rows /\ m.file_name \notin files')]_vars

\* =====================================================================
\* The settings routes of the alternate server: GET /api/settings
\* (part_000:1518) and PUT /api/settings (part_000:1527). Every statement
\* is a pool.query of its own: the pool leases a free connection for the
\* statement and takes it back when the statement has settled, so which
\* connection runs a statement depends on the other queries in flight.
\* =====================================================================
MaxConns == 2

\* req.body.settings carries one value for every key, in this order
SettingKeys == <<"site_name", "contact_email">>
SettingValues == {"a", "b"}
Keys == {SettingKeys[i] : i \in 1..Len(SettingKeys)}

NoWritesPending == [k \in Keys |-> Unset]
\* a connection in autocommit mode
NoTx == [tx |-> FALSE, pending |-> NoWritesPending]

\* handleDbError of the alternate server (part_000:1391)
AltHandleDbError(op, req, a, text) ==
  WithError(Response(op, req, 500, "Database error", {}, NoToken, a), text)

\* res.json({ success: true, data })
WithData(r, data) == r @@ ("data" :> data)

\* the table after the writes of a transaction are committed
Apply(tbl, pending) == [k \in Keys |-> IF pending[k] # Unset THEN pending[k] ELSE tbl[k]]

\* SELECT * FROM settings, as connection c reads it: the committed rows and
\* the writes of its own open transaction
View(c) == Apply(settings, conns[c].pending)

\* another connection's open transaction has written the row of key k
KeyLocked(c, k) == \E o \in DOMAIN conns : o # c /\ conns[o].pending[k] # Unset

SettingsUnchanged ==
  UNCHANGED <<users, nextId, held, now, jwtSecretEnv, reg, content, posts, pages,
              post_categories, autoInc, leased, call, nodeEnv, media, files,
              categories, listing>>

\* a statement of the request threw: the catch block runs next
Thrown(err) == [put EXCEPT !.pc = "rollback", !.err = err]

\* GET /api/settings (part_000:1518): the query runs on connection c
GET_api_settings(h, c, err) ==
  LET a == AltAuthenticateToken(h)
      op == "GET /api/settings"
  IN
  /\ SettingsUnchanged
  /\ UNCHANGED <<settings, conns, put>>
  /\ resp' = IF ~a.next
             THEN Response("authenticateToken", NoReq, a.status, a.message, {}, NoToken,
                           [a EXCEPT !.next = FALSE])
             ELSE IF err # "" THEN AltHandleDbError(op, NoReq, a, err)
             ELSE WithData(Response(op, NoReq, 200, "", {}, NoToken, a), View(c))

\* PUT /api/settings (part_000:1527): the middlewares, and the request
\* entering its try block; before is the table as the request found it
PUT_api_settings(h, v) ==
  LET a == AltAuthenticateToken(h)
      g == AltCheckContentPermission("admin", a.user)
      op == "PUT /api/settings"
  IN
  /\ put = NoRow
  /\ SettingsUnchanged
  /\ UNCHANGED <<settings, conns>>
  /\ IF ~a.next
     THEN /\ resp' = Response("authenticateToken", NoReq, a.status, a.message, {}, NoToken,
                              [a EXCEPT !.next = FALSE])
          /\ put' = put
     ELSE IF ~g.next
     THEN /\ resp' = Response(op, [settings |-> v], g.status, g.message, {}, NoToken,
                              [a EXCEPT !.next = FALSE])
          /\ put' = put
     ELSE /\ Pending
          /\ put' = [pc |-> "start", v |-> v, i |-> 1, a |-> a, err |-> "",
                     before |-> settings]

\* await pool.query('START TRANSACTION') on connection c: a transaction
\* left open on c is committed first
StartTransaction(c, err) ==
  /\ put # NoRow /\ put.pc = "start"
  /\ SettingsUnchanged
  /\ Pending
  /\ IF err # ""
     THEN /\ put' = Thrown(err)
          /\ UNCHANGED <<settings, conns>>
     ELSE /\ settings' = Apply(settings, conns[c].pending)
          /\ conns' = [conns EXCEPT ![c] = [tx |-> TRUE, pending |-> NoWritesPending]]
          /\ put' = [put EXCEPT !.pc = "insert"]

\* await pool.query('INSERT INTO settings ... ON DUPLICATE KEY UPDATE ...')
\* on connection c, for entry i of Object.entries(settings): part of c's
\* transaction when c has one open, committed at once when c has none
InsertSetting(c, err) ==
  /\ put # NoRow /\ put.pc = "insert"
  /\ SettingsUnchanged
  /\ Pending
  /\ LET k == SettingKeys[put.i] IN
     IF err # ""
     THEN /\ put' = Thrown(err)
          /\ UNCHANGED <<settings, conns>>
     ELSE /\ ~KeyLocked(c, k)
          /\ IF conns[c].tx
             THEN /\ conns' = [conns EXCEPT ![c].pending[k] = put.v]
                  /\ settings' = settings
             ELSE /\ settings' = [settings EXCEPT ![k] = put.v]
                  /\ conns' = conns
          /\ put' = IF put.i = Len(SettingKeys)
                    THEN [put EXCEPT !.pc = "commit"]
                    ELSE [put EXCEPT !.i = @ + 1]

\* await pool.query('COMMIT') on connection c
CommitSettings(c, err) ==
  /\ put # NoRow /\ put.pc = "commit"
  /\ SettingsUnchanged
  /\ Pending
  /\ IF err # ""
     THEN /\ put' = Thrown(err)
          /\ UNCHANGED <<settings, conns>>
     ELSE /\ settings' = Apply(settings, conns[c].pending)
          /\ conns' = [conns EXCEPT ![c] = NoTx]
          /\ put' = [put EXCEPT !.pc = "select"]

\* const [updatedSettings] = await pool.query('SELECT * FROM settings') on
\* connection c, and res.json
SelectSettings(c, err) ==
  /\ put # NoRow /\ put.pc = "select"
  /\ SettingsUnchanged
  /\ UNCHANGED <<settings, conns>>
  /\ IF err # ""
     THEN /\ Pending
          /\ put' = Thrown(err)
     ELSE /\ resp' = WithData(Response("PUT /api/settings", [settings |-> put.v], 200, "",
                                       {}, NoToken, put.a), View(c))
          /\ put' = NoRow

\* catch (error) { await pool.query('ROLLBACK'); handleDbError(res, error) }
\* with the ROLLBACK on connection c; when the ROLLBACK throws, the handler's
\* promise rejects and no answer is sent
RollbackSettings(c, ok) ==
  /\ put # NoRow /\ put.pc = "rollback"
  /\ SettingsUnchanged
  /\ settings' = settings
  /\ put' = NoRow
  /\ IF ok
     THEN /\ conns' = [conns EXCEPT ![c] = NoTx]
          /\ resp' = AltHandleDbError("PUT /api/settings", [settings |-> put.v], put.a,
                                      put.err)
     ELSE /\ conns' = conns
          /\ Pending

InitSettings ==
  /\ users = {SeedAdmin,
              User_create(2, [username |-> "ed", email |-> "ed@go.org",
                              password |-> "Str0ng!Pass", role |-> "editor"])}
  /\ nextId = 3
  /\ held = NoToken
  /\ now = 0
  /\ jwtSecretEnv \in EnvValues
  /\ reg = [r \in 1..MaxReq |-> Idle]
  /\ resp = NoResp
  /\ content = {}
  /\ posts = {}
  /\ pages = {}
  /\ post_categories = {}
  /\ autoInc = [content |-> 1, posts |-> 1]
  /\ leased = NoLease
  /\ call = <<>>
  /\ nodeEnv = Unset
  /\ settings = NoWritesPending
  /\ conns = [c \in 1..MaxConns |-> NoTx]
  /\ media = NoMedia
  /\ files = {}
  /\ categories = {}
  /\ listing = NoRow
  /\ put = NoRow

StatementErrors == {"", "ECONNRESET"}

NextSettings ==
  \/ \E h \in ContentHeaders(AltSecret), c \in 1..MaxConns, err \in StatementErrors :
       GET_api_settings(h, c, err)
  \/ \E h \in ContentHeaders(AltSecret), v \in SettingValues : PUT_api_settings(h, v)
  \/ \E c \in 1..MaxConns, err \in StatementErrors : StartTransaction(c, err)
  \/ \E c \in 1..MaxConns, err \in StatementErrors : InsertSetting(c, err)
  \/ \E c \in 1..MaxConns, err \in StatementErrors : CommitSettings(c, err)
  \/ \E c \in 1..MaxConns, err \in StatementErrors : SelectSettings(c, err)
  \/ \E c \in 1..MaxConns, ok \in BOOLEAN : RollbackSettings(c, ok)

SpecSettings == InitSettings /\ [][NextSettings]_vars

\* every key of the table carries the value of the same request
WholeRequests(tbl) == \A j, k \in Keys : tbl[j] = tbl[k]

\* C27: PUT /api/settings is all-or-nothing under the pool's per-call
\* connection leasing: a request that answers with the database error has
\* changed none of its keys, and a reader of GET /api/settings never sees
\* only part of a request's keys written.
C27_SettingsAllOrNothing ==
  /\ []((resp.op = "GET /api/settings" /\ resp.status = 200) => WholeRequests(resp.data))
  /\ [][(resp'.op = "PUT /api/settings" /\ resp'.status = 500 /\ put # NoRow) =>
          settings' = put.before]_vars

====
